---------------------------- MODULE Spec2Model ----------------------------
(***************************************************************************)
(* Model of the ubuntu-nix-sbom tools: the license normalizer of the       *)
(* Ubuntu SBOM generators, the CPE reference repairer and the SBOM merger. *)
(*                                                                         *)
(* Go strings are modelled as sequences of one-character strings, so that  *)
(* prefix tests, splitting, trimming and the regular expressions of the    *)
(* source are computed character by character.                             *)
(***************************************************************************)
EXTENDS Integers, Sequences, FiniteSets

VARIABLES
    pc,          \* position of the run: which operation has been applied
    license,     \* normalizeLicense: the raw license string
    copy,        \* normalizeLicense: which copy of the normalizer is called
    normalized,  \* normalizeLicense: the returned string
    renormalized,\* normalizeLicense applied to its own result
    copy2,       \* normalizeLicense: the copy called a second time
    repeated,    \* normalizeLicense: the result of the second call
    refs,        \* cleanExternalRefs: the external references handed in
    cleaned,     \* cleanExternalRefs: the returned list
    recleaned,   \* cleanExternalRefs applied to its own output
    ubuntuDoc,   \* Merge: the document loaded from ubuntuPath
    nixDoc,      \* Merge: the document loaded from nixPath
    mergedDoc,   \* Merge: the returned document
    ubuntuCount, \* Merge: counter of the Ubuntu loop
    nixCount,    \* Merge: counter of the Nix loop
    merger,      \* Merge: the merger that ran, Merger or SBOMMerger
    flags,       \* ubuntuCommand: the parsed command-line flags
    system,      \* Generate: dpkg-query, dpkg -L and the files it reads
    sbom,        \* Generate: the returned document
    err,         \* Generate, Merge: the returned error
    stdout,      \* the lines printed to standard output
    files,       \* the merge command: the two input files
    outputFile,  \* the commands: the file written by Save
    exitCode,    \* the commands: exit status of the process
    tmpDir,      \* combinedCommand: the temporary directory
    clock,       \* generateUUID: time.Now().UnixNano()
    namespaces   \* the documentNamespace of each generated document

vars == <<pc, license, copy, normalized, renormalized, copy2, repeated, refs,
          cleaned, recleaned,
          ubuntuDoc, nixDoc, mergedDoc, ubuntuCount, nixCount, merger,
          flags, system, sbom, err, stdout, files, outputFile, exitCode,
          tmpDir, clock, namespaces>>

licenseVars == <<license, copy, normalized, renormalized, copy2, repeated>>
cpeVars == <<refs, cleaned, recleaned>>
mergeVars == <<ubuntuDoc, nixDoc, mergedDoc, ubuntuCount, nixCount, merger>>
generateVars == <<flags, system, sbom, stdout>>
commandVars == <<files, outputFile, exitCode, err, tmpDir>>
uuidVars == <<clock, namespaces>>

\* Value of a variable that the running specification does not use.
Idle == <<>>

\* The variables of the tools a specification does not run.
LicenseIdle ==
    /\ license = Idle /\ copy = Idle /\ normalized = Idle
    /\ renormalized = Idle /\ copy2 = Idle /\ repeated = Idle
CPEIdle == refs = Idle /\ cleaned = Idle /\ recleaned = Idle
MergeIdle ==
    /\ ubuntuDoc = Idle /\ nixDoc = Idle /\ mergedDoc = Idle
    /\ ubuntuCount = 0 /\ nixCount = 0 /\ merger = Idle
GenerateIdle == flags = Idle /\ system = Idle /\ sbom = Idle /\ stdout = Idle
CommandIdle ==
    /\ files = Idle /\ outputFile = Idle /\ exitCode = Idle /\ err = Idle
    /\ tmpDir = Idle
UUIDIdle == clock = 0 /\ namespaces = Idle

---------------------------------------------------------------------------
(* Characters and the string functions of Go's strings package.            *)

Upper == <<"A","B","C","D","E","F","G","H","I","J","K","L","M",
           "N","O","P","Q","R","S","T","U","V","W","X","Y","Z">>

Lower == <<"a","b","c","d","e","f","g","h","i","j","k","l","m",
           "n","o","p","q","r","s","t","u","v","w","x","y","z">>

UpperSet == {Upper[i] : i \in 1..26}

LowerSet == {Lower[i] : i \in 1..26}

Letters == UpperSet \cup LowerSet

Digits == {"0","1","2","3","4","5","6","7","8","9"}

\* The class \s of Go's regexp: [\t\n\f\r ]. strings.TrimSpace trims the
\* same characters among those the model's inputs use.
WhiteSpace == {" ", "\t", "\n", "\f", "\r"}

Concat(ss) ==
    LET RECURSIVE cat(_)
        cat(q) == IF q = <<>> THEN <<>> ELSE Head(q) \o cat(Tail(q))
    IN cat(ss)

Drop(s, n) == SubSeq(s, n + 1, Len(s))

HasPrefix(s, prefix) ==
    Len(prefix) <= Len(s) /\ SubSeq(s, 1, Len(prefix)) = prefix

HasSuffix(s, suffix) ==
    Len(suffix) <= Len(s) /\ SubSeq(s, Len(s) - Len(suffix) + 1, Len(s)) = suffix

Contains(s, substr) ==
    \E i \in 0..(Len(s) - Len(substr)) : SubSeq(s, i + 1, i + Len(substr)) = substr

TrimPrefix(s, prefix) == IF HasPrefix(s, prefix) THEN Drop(s, Len(prefix)) ELSE s

ToLowerChar(c) ==
    IF c \in UpperSet THEN Lower[CHOOSE i \in 1..26 : Upper[i] = c] ELSE c

ToLower(s) == [i \in 1..Len(s) |-> ToLowerChar(s[i])]

\* strings.Trim(s, cutset) for a set of characters
Trim(s, cutset) ==
    LET keep == {i \in 1..Len(s) : s[i] \notin cutset}
    IN IF keep = {} THEN <<>>
       ELSE SubSeq(s, CHOOSE i \in keep : \A j \in keep : i <= j,
                      CHOOSE i \in keep : \A j \in keep : j <= i)

TrimSpace(s) == Trim(s, WhiteSpace)

\* strings.ReplaceAll / regexp.ReplaceAllString for single characters
ReplaceChars(s, old, new) == [i \in 1..Len(s) |-> IF s[i] \in old THEN new ELSE s[i]]

\* The fields of s between the positions in seps, in order.
Fields(s, seps) ==
    LET at(k) == IF k = 0 THEN 0
                 ELSE IF k > Cardinality(seps) THEN Len(s) + 1
                 ELSE CHOOSE i \in seps : Cardinality({j \in seps : j <= i}) = k
    IN [k \in 1..(Cardinality(seps) + 1) |-> SubSeq(s, at(k - 1) + 1, at(k) - 1)]

\* strings.Split(s, sep) for a one-character separator
Split(s, sep) == Fields(s, {i \in 1..Len(s) : s[i] = sep})

---------------------------------------------------------------------------
(* normalizeLicense                                                        *)

NOASSERTION == <<"N","O","A","S","S","E","R","T","I","O","N">>

\* The replacements table shared by the copies: pairs <<key, value>>.
replacementsCommon ==
    { <<<<"g","p","l","-","2">>, <<"G","P","L","-","2",".","0","-","o","n","l","y">>>>,
      <<<<"g","p","l","-","2","+">>, <<"G","P","L","-","2",".","0","-","o","r","-","l","a","t","e","r">>>>,
      <<<<"g","p","l","-","3">>, <<"G","P","L","-","3",".","0","-","o","n","l","y">>>>,
      <<<<"g","p","l","-","3","+">>, <<"G","P","L","-","3",".","0","-","o","r","-","l","a","t","e","r">>>>,
      <<<<"l","g","p","l","-","2">>, <<"L","G","P","L","-","2",".","0","-","o","n","l","y">>>>,
      <<<<"l","g","p","l","-","2","+">>, <<"L","G","P","L","-","2",".","0","-","o","r","-","l","a","t","e","r">>>>,
      <<<<"l","g","p","l","-","2",".","1">>, <<"L","G","P","L","-","2",".","1","-","o","n","l","y">>>>,
      <<<<"l","g","p","l","-","2",".","1","+">>, <<"L","G","P","L","-","2",".","1","-","o","r","-","l","a","t","e","r">>>>,
      <<<<"l","g","p","l","-","3">>, <<"L","G","P","L","-","3",".","0","-","o","n","l","y">>>>,
      <<<<"l","g","p","l","-","3","+">>, <<"L","G","P","L","-","3",".","0","-","o","r","-","l","a","t","e","r">>>>,
      <<<<"a","p","a","c","h","e","-","2">>, <<"A","p","a","c","h","e","-","2",".","0">>>>,
      <<<<"b","s","d">>, <<"B","S","D","-","3","-","C","l","a","u","s","e">>>>,
      <<<<"m","i","t","/","x","1","1">>, <<"M","I","T">>>>,
      <<<<"e","x","p","a","t">>, <<"M","I","T">>>>,
      <<<<"m","i","t","-","1">>, <<"M","I","T">>>>,
      <<<<"m","i","t","-","s","t","y","l","e">>, <<"M","I","T">>>>,
      <<<<"p","s","f">>, <<"P","y","t","h","o","n","-","2",".","0">>>>,
      <<<<"p","u","b","l","i","c","-","d","o","m","a","i","n">>, NOASSERTION>>,
      <<<<"o","p","e","n","l","d","a","p","-","2",".","8">>, NOASSERTION>>,
      <<<<"h","y","l","a","f","a","x">>, NOASSERTION>> }

\* The entries only the internal/ubuntu and cmd copies have.
replacementsExtended ==
    { <<<<"a","p","a","c","h","e">>, NOASSERTION>>,
      <<<<"u","b","u","n","t","u","-","f","o","n","t","-","l","i","c","e","n","c","e","-","1",".","0">>, <<"U","b","u","n","t","u","-","F","o","n","t","-","1",".","0">>>>,
      <<<<"g","o">>, NOASSERTION>>,
      <<<<"e","p","l","-","1">>, <<"E","P","L","-","1",".","0">>>>,
      <<<<"d","o","m","4","j">>, NOASSERTION>>,
      <<<<"f","a","s","t","c","g","i">>, NOASSERTION>>,
      <<<<"o","t","h","e","r">>, NOASSERTION>>,
      <<<<"e","c","l","i","p","s","e","-","p","u","b","l","i","c","-","l","i","c","e","n","s","e","-","v","1",".","0">>, <<"E","P","L","-","1",".","0">>>>,
      <<<<"e","d","l","-","1",".","0">>, <<"B","S","D","-","3","-","C","l","a","u","s","e">>>>,
      <<<<"n","r","l","-","2","-","c","l","a","u","s","e">>, NOASSERTION>>,
      <<<<"t","i","d","y">>, NOASSERTION>>,
      <<<<"p","u","r","d","u","e">>, NOASSERTION>>,
      <<<<"m","p","l","-","2">>, <<"M","P","L","-","2",".","0">>>> }

Copies == {"main", "ubuntu", "cmd"}

\* A faulty table: "gpl-2" mapped to the or-later identifier.
replacementsMutated(c) ==
    (replacementsCommon \ { <<<<"g","p","l","-","2">>, <<"G","P","L","-","2",".","0","-","o","n","l","y">>>> })
        \cup { <<<<"g","p","l","-","2">>, <<"G","P","L","-","2",".","0","-","o","r","-","l","a","t","e","r">>>> }

\* The replacements map of each copy of normalizeLicense.
replacements(c) ==
    IF c = "main" THEN replacementsCommon
    ELSE replacementsCommon \cup replacementsExtended

TokenChars == Letters \cup Digits \cup {".", "-"}

\* A faulty pattern: any run of token characters, white space and "+".
validSPDXPatternLoose(s) ==
    s # <<>> /\ \A i \in 1..Len(s) : s[i] \in TokenChars \cup WhiteSpace \cup {"+"}

\* ^[A-Za-z0-9.\-]+(\s+(AND|OR|WITH)\s+[A-Za-z0-9.\-]+)*$ : the string
\* neither starts nor ends with white space, and of its words, the runs
\* between white space, the odd ones are tokens and the even ones keywords.
validSPDXPattern(s) ==
    LET n == Len(s)
        starts == {i \in 1..n : s[i] \notin WhiteSpace
                                  /\ (i = 1 \/ s[i - 1] \in WhiteSpace)}
        wordEnd(i) == CHOOSE e \in i..n :
                         /\ \A j \in i..e : s[j] \notin WhiteSpace
                         /\ (e = n \/ s[e + 1] \in WhiteSpace)
        rank(i) == Cardinality({j \in starts : j <= i})
    IN /\ n >= 1
       /\ s[1] \notin WhiteSpace
       /\ s[n] \notin WhiteSpace
       /\ Cardinality(starts) % 2 = 1
       /\ \A i \in starts :
             IF rank(i) % 2 = 1
             THEN \A j \in i..wordEnd(i) : s[j] \in TokenChars
             ELSE SubSeq(s, i, wordEnd(i)) \in {<<"A","N","D">>, <<"O","R">>, <<"W","I","T","H">>}

invalidPatterns ==
    { <<"C","o","p","y","r","i","g","h","t">>, <<"c","o","p","y","r","i","g","h","t">>, <<"P","e","r","m","i","s","s","i","o","n"," ","i","s"," ","h","e","r","e","b","y">>, <<"T","h","e"," ","f","i","l","e","s">>,
      <<"F","o","r","m","e","r","l","y",",">>, <<"b","u","i","l","d","-","a","u","x">>, <<"P","o","r","t","i","o","n","s">>, <<"f","r","e","e"," ","s","o","f","t","w","a","r","e">>,
      <<"<">>, <<">">>, <<"'">>, <<",">> }

MaxIdentifierLen == 50

\* A faulty order of the steps: the prefix step before the exact step.
normalizeLicensePrefixFirst(c, raw) ==
    LET lic == TrimSpace(raw)
        licenseLower == ToLower(lic)
        exact == {p \in replacements(c) : p[1] = licenseLower}
        prefixed == {p \in replacements(c) : HasPrefix(licenseLower, p[1])}
    IN IF lic = <<>> THEN {NOASSERTION}
       ELSE IF prefixed # {} THEN {p[2] : p \in prefixed}
       ELSE IF exact # {} THEN {p[2] : p \in exact}
       ELSE IF validSPDXPattern(lic) THEN {lic}
       ELSE {NOASSERTION}

\* The set of strings normalizeLicense can return for an input: the range
\* over the replacements map visits the keys in an unspecified order, so a
\* prefix match returns the value of any key that is a prefix.
normalizeLicense(c, raw) ==
    LET lic == TrimSpace(raw)
        licenseLower == ToLower(lic)
        exact == {p \in replacements(c) : p[1] = licenseLower}
        prefixed == {p \in replacements(c) : HasPrefix(licenseLower, p[1])}
    IN IF lic = <<>> THEN {NOASSERTION}
       ELSE IF exact # {} THEN {p[2] : p \in exact}
       ELSE IF prefixed # {} THEN {p[2] : p \in prefixed}
       ELSE IF validSPDXPattern(lic) THEN {lic}
       ELSE IF \E pattern \in invalidPatterns : Contains(lic, pattern)
            THEN {NOASSERTION}
       ELSE IF Len(lic) > MaxIdentifierLen THEN {NOASSERTION}
       ELSE {NOASSERTION}

---------------------------------------------------------------------------
(* The normalizer's inputs and its specification.                          *)

\* Longest concatenation of fragments tried as a license string.
MaxFrags == 3

LicenseFragments ==
    { <<"G","P","L","-","2">>, <<"+">>, <<" ">>, <<" ","A","N","D"," ">>, <<"\t","O","R","\t">>, <<"M","I","T">>, <<"C","o","p","y","r","i","g","h","t">>, <<",">>,
      <<"a","p","a","c","h","e">>, <<"-","2">>, <<"e","x","p","a","t">>, <<"<">> }

\* The inputs the specification's reference values name, and one string
\* longer than 50 characters.
ReferenceLicenses ==
    { <<"G","P","L","-","2">>, <<"e","x","p","a","t">>, <<>>, <<" "," ">>, <<"\t","\n">>, <<"C","o","p","y","r","i","g","h","t"," ","(","c",")"," ","J","a","n","e"," ","D","o","e">>, <<"M","I","T">>,
      <<"T","h","i","s"," ","p","r","o","g","r","a","m"," ","i","s"," ","d","i","s","t","r","i","b","u","t","e","d"," ","i","n"," ","t","h","e"," ","h","o","p","e"," ","t","h","a","t"," ","i","t"," ","w","i","l","l"," ","b","e"," ","u","s","e","f","u","l">> }

FragSeqs(n) == UNION {[1..k -> LicenseFragments] : k \in 0..n}

LicenseInputs ==
    ReferenceLicenses \cup {Concat(fs) : fs \in FragSeqs(MaxFrags)}

InitLicense ==
    /\ pc = "license"
    /\ license \in LicenseInputs
    /\ copy = Idle
    /\ normalized = Idle
    /\ renormalized = Idle /\ copy2 = Idle /\ repeated = Idle
    /\ refs = Idle /\ cleaned = Idle /\ recleaned = Idle
    /\ GenerateIdle /\ CommandIdle /\ UUIDIdle
    /\ MergeIdle

\* One call of normalizeLicense, in any of the copies.
Normalize ==
    /\ pc = "license"
    /\ \E c \in Copies : \E result \in normalizeLicense(c, license) :
          /\ copy' = c
          /\ normalized' = result
    /\ pc' = "normalized"
    /\ UNCHANGED <<license, renormalized, copy2, repeated, cpeVars, mergeVars,
                 generateVars, commandVars, uuidVars>>

\* The same copy called on the string it returned.
NormalizeAgain ==
    /\ pc = "normalized"
    /\ \E result \in normalizeLicense(copy, normalized) :
          renormalized' = result
    /\ pc' = "renormalized"
    /\ UNCHANGED <<license, copy, normalized, copy2, repeated, cpeVars, mergeVars,
                 generateVars, commandVars, uuidVars>>

\* A second call on the same input, in the same or in another copy: the
\* same package read again, or read by another binary.
NormalizeRepeat ==
    /\ pc = "normalized"
    /\ \E c \in Copies : \E result \in normalizeLicense(c, license) :
          /\ copy2' = c
          /\ repeated' = result
    /\ pc' = "repeated"
    /\ UNCHANGED <<license, copy, normalized, renormalized, cpeVars, mergeVars,
                 generateVars, commandVars, uuidVars>>

NextLicense == Normalize \/ NormalizeAgain \/ NormalizeRepeat

SpecLicense == InitLicense /\ [][NextLicense]_vars

---------------------------------------------------------------------------
(* Claims about normalizeLicense.                                          *)

IsToken(t) == t # <<>> /\ \A i \in 1..Len(t) : t[i] \in TokenChars

Keywords == { <<"A","N","D">>, <<"O","R">>, <<"W","I","T","H">> }

\* Tokens and keywords alternate, a token first and last.
Alternates(words) ==
    /\ Len(words) % 2 = 1
    /\ \A i \in 1..Len(words) :
          IF i % 2 = 1 THEN IsToken(words[i]) ELSE words[i] \in Keywords

\* The grammar of step 4 as the specification words it: tokens chained by
\* " AND ", " OR " or " WITH ", each keyword between two single spaces.
SpaceDelimitedGrammar(s) == Alternates(Split(s, " "))

\* The same grammar with a keyword set off by one or more white-space
\* characters (space, tab, line feed, form feed, carriage return).
WhiteSpaceDelimitedGrammar(s) ==
    /\ s # <<>>
    /\ s[1] \notin WhiteSpace
    /\ s[Len(s)] \notin WhiteSpace
    /\ Alternates(SelectSeq(Split(ReplaceChars(s, WhiteSpace, " "), " "),
                            LAMBDA w : w # <<>>))

\* C1 as stated: normalizeLicense returns the sentinel or a string of tokens
\* chained by the space-delimited keywords " AND ", " OR ", " WITH ".
C1_SpaceDelimitedOutput ==
    pc = "normalized" =>
        normalized = NOASSERTION \/ SpaceDelimitedGrammar(normalized)

\* C1 amended: normalizeLicense returns the sentinel or a string of tokens
\* chained by the keywords AND, OR, WITH, each keyword separated from its
\* neighbouring tokens by one or more white-space characters.
C1_GrammarOrSentinel ==
    pc = "normalized" =>
        normalized = NOASSERTION \/ WhiteSpaceDelimitedGrammar(normalized)

\* A composite expression whose keyword stands between tabs came back
\* unchanged from the pattern step.
C1_Witness ==
    /\ pc = "normalized"
    /\ normalized = license
    /\ normalized = <<"M","I","T","\t","O","R","\t","M","I","T">>

\* C2: normalizeLicense never returns the trimmed raw input when the input
\* contains one of the disqualifying substrings.
C2_NoDisqualifiedRawOutput ==
    pc = "normalized" /\ (\E p \in invalidPatterns : Contains(license, p))
        => normalized # TrimSpace(license)

\* C3: the reference values of the specification, in every copy:
\* "GPL-2" gives "GPL-2.0-only", "expat" gives "MIT", an empty or
\* white-space-only string and "Copyright (c) Jane Doe" give "NOASSERTION",
\* "MIT" gives "MIT".
C3_ReferenceValues ==
    pc = "normalized" =>
        /\ license = <<"G","P","L","-","2">> => normalized = <<"G","P","L","-","2",".","0","-","o","n","l","y">>
        /\ license = <<"e","x","p","a","t">> => normalized = <<"M","I","T">>
        /\ (\A i \in 1..Len(license) : license[i] \in WhiteSpace)
              => normalized = NOASSERTION
        /\ license = <<"C","o","p","y","r","i","g","h","t"," ","(","c",")"," ","J","a","n","e"," ","D","o","e">> => normalized = NOASSERTION
        /\ license = <<"M","I","T">> => normalized = <<"M","I","T">>

C3_Witness ==
    /\ pc = "normalized"
    /\ copy = "main"
    /\ license = <<"G","P","L","-","2">>
    /\ normalized = <<"G","P","L","-","2",".","0","-","o","n","l","y">>


\* The table entries whose key equals, and those whose key is a prefix of,
\* the trimmed and lower-cased input.
ExactKeys(c, s) == {p \in replacements(c) : p[1] = ToLower(TrimSpace(s))}

PrefixKeys(c, s) ==
    {p \in replacements(c) : HasPrefix(ToLower(TrimSpace(s)), p[1])}

\* C22: when the trimmed, lower-cased input equals a table key the result
\* is that key's value, whatever other keys are prefixes of the input; with
\* no exact match and some prefix match the result is the value of a key
\* that is a prefix; only with neither does the grammar step decide, and
\* the result is then the trimmed input, if it fits the grammar, or the
\* sentinel.
C22_StrictPrecedence ==
    pc = "normalized" =>
        LET exact == ExactKeys(copy, license)
            prefixed == PrefixKeys(copy, license)
        IN /\ \A p \in exact : normalized = p[2]
           /\ exact = {} /\ prefixed # {}
                 => \E p \in prefixed : normalized = p[2]
           /\ exact = {} /\ prefixed = {}
                 => \/ normalized = NOASSERTION
                    \/ /\ normalized = TrimSpace(license)
                       /\ validSPDXPattern(normalized)

\* "GPL-2+" has the keys "gpl-2" and "gpl-2+" as prefixes and is itself a
\* key: the exact step answered.
C22_Witness ==
    /\ pc = "normalized"
    /\ license = <<"G","P","L","-","2","+">>
    /\ Cardinality(PrefixKeys(copy, license)) = 2
    /\ normalized = <<"G","P","L","-","2",".","0","-","o","r","-","l","a","t","e","r">>

\* C26: two calls of the same normalizer on the same input return the same
\* value, whatever order the range over the table takes.
C26_Deterministic ==
    pc = "repeated" /\ copy2 = copy => repeated = normalized

\* C27: normalizeLicense applied to its own result returns that result.
C27_Idempotent ==
    pc = "renormalized" => renormalized = normalized

\* C28: the normalizer of src/main.go and the one of the ubuntu package
\* return the same result for the same input.
C28_CopiesEquivalent ==
    pc = "repeated" /\ copy = "main" /\ copy2 = "ubuntu"
        => repeated = normalized
---------------------------------------------------------------------------
(* cleanExternalRefs, fixCPEFormat, sanitizeCPEComponent                   *)

\* [a-zA-Z0-9\-\._]
CPEPlain == Letters \cup Digits \cup {"-", ".", "_"}

\* The characters the pattern accepts after a backslash. The pattern also
\* accepts the grave accent, which a TLA+ string cannot hold; no locator of
\* the model contains one.
CPEEscapable ==
    {"\\", "*", "?", "!", "\"", "#", "$", "%", "&", "'", "(", ")", "+", ",",
     "/", ":", ";", "<", "=", ">", "@", "[", "]", "^", "{", "|", "}", "~"}

\* The fields of s between colons that no backslash quotes: the pattern
\* reads a backslash together with the character after it.
SplitUnquoted(s) ==
    LET quoting(i) == {k \in 0..(i - 1) :
                         \A j \in (i - k)..(i - 1) : s[j] = "\\"}
        quoted(i) == Cardinality(quoting(i)) % 2 = 0
    IN Fields(s, {i \in 1..Len(s) : s[i] = ":" /\ ~quoted(i)})

\* The units of a field: "B" a plain or quoted character, "Q" a bare
\* question mark, "S" a bare star, "X" anything the pattern rejects.
cpeUnits(f) ==
    LET RECURSIVE units(_)
        units(rest) ==
            IF rest = <<>> THEN <<>>
            ELSE IF Head(rest) = "\\"
                 THEN IF Len(rest) >= 2 /\ rest[2] \in CPEEscapable
                      THEN <<"B">> \o units(Drop(rest, 2))
                      ELSE <<"X">> \o units(Tail(rest))
            ELSE IF Head(rest) \in CPEPlain THEN <<"B">> \o units(Tail(rest))
            ELSE IF Head(rest) = "?" THEN <<"Q">> \o units(Tail(rest))
            ELSE IF Head(rest) = "*" THEN <<"S">> \o units(Tail(rest))
            ELSE <<"X">> \o units(Tail(rest))
    IN units(f)

\* (\?*|\*?) on a run of units
cpeAffix(us) == (\A i \in 1..Len(us) : us[i] = "Q") \/ us = <<"S">>

\* ((\?*|\*?)([a-zA-Z0-9\-\._]|(\\[...]))+(\?*|\*?))|[\*\-]
cpeComponent(f) ==
    \/ f = <<"*">>
    \/ f = <<"-">>
    \/ LET us == cpeUnits(f)
           body == {i \in 1..Len(us) : us[i] = "B"}
       IN /\ body # {}
          /\ LET first == CHOOSE i \in body : \A j \in body : i <= j
                 last == CHOOSE i \in body : \A j \in body : j <= i
             IN /\ \A i \in first..last : us[i] = "B"
                /\ cpeAffix(SubSeq(us, 1, first - 1))
                /\ cpeAffix(SubSeq(us, last + 1, Len(us)))

\* ([a-zA-Z]{2,3}(-([a-zA-Z]{2}|[0-9]{3}))?)|[\*\-]
cpeLanguage(f) ==
    \/ f = <<"*">>
    \/ f = <<"-">>
    \/ \E n \in 2..3 :
          /\ Len(f) >= n
          /\ \A i \in 1..n : f[i] \in Letters
          /\ LET region == Drop(f, n)
             IN \/ region = <<>>
                \/ /\ Len(region) = 3 /\ region[1] = "-"
                   /\ region[2] \in Letters /\ region[3] \in Letters
                \/ /\ Len(region) = 4 /\ region[1] = "-"
                   /\ \A i \in 2..4 : region[i] \in Digits

cpePrefix == <<"c","p","e",":","2",".","3",":">>

\* cpePattern.MatchString: the prefix, a part code, five components, the
\* language, four components, thirteen colon-delimited fields in all.
cpePattern(s) ==
    /\ HasPrefix(s, cpePrefix)
    /\ Len(s) >= Len(cpePrefix) + 2
    /\ s[Len(cpePrefix) + 1] \in {"a", "h", "o", "*", "-"}
    /\ s[Len(cpePrefix) + 2] = ":"
    /\ LET fields == SplitUnquoted(Drop(s, Len(cpePrefix) + 2))
       IN /\ Len(fields) = 10
          /\ \A i \in 1..5 : cpeComponent(fields[i])
          /\ cpeLanguage(fields[6])
          /\ \A i \in 7..10 : cpeComponent(fields[i])

\* [^a-zA-Z0-9\-\.\*] keeps these characters
CPEKept == Letters \cup Digits \cup {"-", ".", "*"}

sanitizeCPEComponent(component) ==
    LET dashed == ReplaceChars(component, {"_"}, "-")
    IN IF dashed = <<>> \/ dashed = <<"*">> THEN <<"*">>
       ELSE LET kept == [i \in 1..Len(dashed) |->
                            IF dashed[i] \in CPEKept THEN dashed[i] ELSE "-"]
                trimmed == Trim(kept, {"-"})
            IN IF trimmed = <<>> THEN <<"*">> ELSE trimmed

\* A faulty format string: eight trailing wildcards, fourteen fields.
trailingWildcardsEight == <<":","*",":","*",":","*",":","*",":","*",":","*",":","*",":","*">>

\* The fields update to other of the format string of fixCPEFormat.
trailingWildcards == <<":","*",":","*",":","*",":","*",":","*",":","*",":","*">>

\* A faulty fixCPEFormat: vendor and product taken from each other's field.
fixCPEFormatSwapped(cpe) ==
    IF ~HasPrefix(cpe, cpePrefix) THEN cpe
    ELSE LET parts == Split(cpe, ":")
         IN IF Len(parts) < 4 THEN cpe
            ELSE LET vendor == IF Len(parts) >= 5 THEN parts[5] ELSE <<"*">>
                     product == parts[4]
                     version == IF Len(parts) >= 6 /\ parts[6] # <<>> /\ parts[6] # <<"*">>
                                THEN parts[6] ELSE <<"*">>
                 IN Concat(<<cpePrefix, parts[3],
                             <<":">>, sanitizeCPEComponent(vendor),
                             <<":">>, sanitizeCPEComponent(product),
                             <<":">>, sanitizeCPEComponent(version),
                             trailingWildcards>>)

\* parts[i] of the source is parts[i + 1] here: sequences start at 1.
fixCPEFormat(cpe) ==
    IF ~HasPrefix(cpe, cpePrefix) THEN cpe
    ELSE LET parts == Split(cpe, ":")
         IN IF Len(parts) < 4 THEN cpe
            ELSE LET part == parts[3]
                     productName == parts[4]
                     hasVersion == Len(parts) >= 6 /\ parts[6] # <<>> /\ parts[6] # <<"*">>
                     vendor == IF Len(parts) >= 5 THEN parts[4] ELSE <<"*">>
                     product == IF Len(parts) >= 5
                                THEN IF parts[4] = parts[5] THEN parts[4] ELSE parts[5]
                                ELSE productName
                     version == IF Len(parts) >= 5 /\ hasVersion THEN parts[6] ELSE <<"*">>
                 IN Concat(<<cpePrefix, part,
                             <<":">>, sanitizeCPEComponent(vendor),
                             <<":">>, sanitizeCPEComponent(product),
                             <<":">>, sanitizeCPEComponent(version),
                             trailingWildcards>>)

\* A faulty cleanExternalRefs: the test of the reference type left out.
cleanExternalRefsAnyType(rs) ==
    [i \in 1..Len(rs) |->
        IF cpePattern(rs[i].Locator) THEN rs[i]
        ELSE [rs[i] EXCEPT !.Locator = fixCPEFormat(rs[i].Locator)]]

cleanExternalRefs(rs) ==
    [i \in 1..Len(rs) |->
        IF rs[i].Type = "cpe23Type"
        THEN IF cpePattern(rs[i].Locator) THEN rs[i]
             ELSE [rs[i] EXCEPT !.Locator = fixCPEFormat(rs[i].Locator)]
        ELSE rs[i]]

---------------------------------------------------------------------------
(* The repairer's inputs and its specification.                            *)

\* Most vendor/product/version fields of a generated locator.
MaxFields == 3

\* Longest list of references drawn from RefPool.
MaxRefs == 2

CpeHeads == { cpePrefix, <<"c","p","e",":","2",".","3">>, <<"c","p","e",":","/">> }

CpeParts == { <<"a">>, <<"x">> }

CpeFields == { <<"p","g","_","c","r","o","n">>, <<>>, <<"*">>, <<"a","*","b">>, <<"1",".","0">>, <<"_">>, <<"c","+","+">> }

CpeTails == { <<>>, trailingWildcards }

ColonJoined(fs) ==
    LET RECURSIVE join(_)
        join(q) == IF q = <<>> THEN <<>> ELSE <<":">> \o Head(q) \o join(Tail(q))
    IN join(fs)

CpeLocators ==
    { head \o part \o ColonJoined(fs) \o tail :
        head \in CpeHeads, part \in CpeParts,
        fs \in UNION {[1..k -> CpeFields] : k \in 0..MaxFields},
        tail \in CpeTails }

Ref(category, type, locator) ==
    [Category |-> category, Type |-> type, Locator |-> locator]

PgCronLocator == <<"c","p","e",":","2",".","3",":","a",":","p","g","_","c","r","o","n",":","p","g","_","c","r","o","n",":",":","*",":","*",":","*",":","*",":","*",":","*",":","*">>

PgCronRepaired == <<"c","p","e",":","2",".","3",":","a",":","p","g","-","c","r","o","n",":","p","g","-","c","r","o","n",":","*",":","*",":","*",":","*",":","*",":","*",":","*",":","*">>

RefPool ==
    { Ref("PACKAGE-MANAGER", "purl", <<"p","k","g",":","n","i","x","/","p","g","_","c","r","o","n","@","1",".","6">>),
      Ref("SECURITY", "cpe23Type", <<"c","p","e",":","2",".","3",":","a",":","g","n","u",":","b","a","s","h",":","5",".","2",":","*",":","*",":","e","n","-","U","S",":","*",":","*",":","*",":","*">>),
      Ref("SECURITY", "cpe23Type", PgCronLocator),
      Ref("SECURITY", "cpe23Type", <<"c","p","e",":","2",".","3",":","a",":","a","\\",":","b",":","c","\\","*","d","?",":","*",":","-",":","*",":","e","n","g",":","*",":","*",":","*",":","*">>),
      Ref("SECURITY", "cpe22Type", <<"c","p","e",":","2",".","3",":","a",":","p","g","_","c","r","o","n">> ) }

RefLists ==
    { <<Ref("SECURITY", "cpe23Type", l)>> : l \in CpeLocators }
        \cup UNION {[1..k -> RefPool] : k \in 0..MaxRefs}

InitCPE ==
    /\ pc = "refs"
    /\ refs \in RefLists
    /\ cleaned = Idle /\ recleaned = Idle
    /\ LicenseIdle
    /\ GenerateIdle /\ CommandIdle /\ UUIDIdle
    /\ MergeIdle

\* One call of cleanExternalRefs.
Clean ==
    /\ pc = "refs"
    /\ cleaned' = cleanExternalRefs(refs)
    /\ pc' = "cleaned"
    /\ UNCHANGED <<refs, recleaned, licenseVars, mergeVars,
                 generateVars, commandVars, uuidVars>>

\* cleanExternalRefs called on a list it returned (a merged document that
\* is merged again).
CleanAgain ==
    /\ pc = "cleaned"
    /\ recleaned' = cleanExternalRefs(cleaned)
    /\ pc' = "recleaned"
    /\ UNCHANGED <<refs, cleaned, licenseVars, mergeVars,
                 generateVars, commandVars, uuidVars>>

NextCPE == Clean \/ CleanAgain

SpecCPE == InitCPE /\ [][NextCPE]_vars

---------------------------------------------------------------------------
(* Claims about the CPE repairer.                                          *)

Components(locator) == Split(locator, ":")

\* fixCPEFormat reaches its format string for this reference.
Rebuilt(ref) ==
    /\ ref.Type = "cpe23Type"
    /\ ~cpePattern(ref.Locator)
    /\ HasPrefix(ref.Locator, cpePrefix)
    /\ Len(Components(ref.Locator)) >= 4

\* C4: for every cpe23Type locator with at least 4 colon-delimited
\* components, the locator the repairer returns satisfies the CPE grammar.
C4_RepairedIsValid ==
    pc = "cleaned" =>
        \A i \in 1..Len(refs) :
            refs[i].Type = "cpe23Type" /\ Len(Components(refs[i].Locator)) >= 4
                => cpePattern(cleaned[i].Locator)

\* C5: the repairer is idempotent: applied to its own output it returns
\* that output.
C5_RepairIdempotent ==
    pc = "recleaned" => recleaned = cleaned

\* A locator was rebuilt, the result still fails the grammar, and the
\* second call rebuilt it again.
C5_Witness ==
    /\ pc = "recleaned"
    /\ Len(refs) = 1
    /\ cleaned # refs
    /\ Rebuilt(cleaned[1])

\* C6: cleanExternalRefs returns a list of the same length and order, never
\* changes a category or type, and changes a locator only of a cpe23Type
\* reference whose locator fails the grammar.
C6_OnlyInvalidCPEChanged ==
    pc = "cleaned" =>
        /\ Len(cleaned) = Len(refs)
        /\ \A i \in 1..Len(refs) :
              /\ cleaned[i].Category = refs[i].Category
              /\ cleaned[i].Type = refs[i].Type
              /\ cleaned[i] # refs[i]
                    => refs[i].Type = "cpe23Type" /\ ~cpePattern(refs[i].Locator)
              /\ refs[i].Type # "cpe23Type" \/ cpePattern(refs[i].Locator)
                    => cleaned[i] = refs[i]

\* A valid CPE reference is kept and a malformed one after it is repaired.
C6_Witness ==
    /\ pc = "cleaned"
    /\ Len(refs) = 2
    /\ refs[1].Type = "cpe23Type" /\ cpePattern(refs[1].Locator)
    /\ cleaned[1] = refs[1]
    /\ cleaned[2] # refs[2]

\* C7: the pg_cron locator is repaired to the stated string, and every
\* locator the repair branch builds has 13 colon-delimited components, the
\* last 7 of them "*".
C7_ThirteenComponents ==
    pc = "cleaned" =>
        \A i \in 1..Len(refs) :
            /\ refs[i].Type = "cpe23Type" /\ refs[i].Locator = PgCronLocator
                  => cleaned[i].Locator = PgCronRepaired
            /\ Rebuilt(refs[i])
                  => LET cs == Components(cleaned[i].Locator)
                     IN /\ Len(cs) = 13
                        /\ \A k \in 7..13 : cs[k] = <<"*">>

C7_Witness ==
    /\ pc = "cleaned"
    /\ Len(refs) = 1
    /\ refs[1].Locator = PgCronLocator
    /\ cleaned[1].Locator = PgCronRepaired


\* Step 3 of the repair as the specification words it.
Sanitized(f) ==
    LET hyphened == [i \in 1..Len(f) |-> IF f[i] = "_" THEN "-" ELSE f[i]]
        replaced == [i \in 1..Len(f) |->
                        IF hyphened[i] \in Letters \cup Digits \cup {"-", ".", "*"}
                        THEN hyphened[i] ELSE "-"]
        inner == {i \in 1..Len(f) : replaced[i] # "-"}
    IN IF hyphened = <<>> \/ hyphened = <<"*">> \/ inner = {} THEN <<"*">>
       ELSE [k \in 1..Cardinality({i \in 1..Len(f) :
                                      \E a, b \in inner : a <= i /\ i <= b}) |->
                replaced[k + (CHOOSE a \in inner : \A b \in inner : a <= b) - 1]]

\* Steps 2 to 4 of the repair as the specification words them, for a
\* locator of at least 4 components.
ReferenceRepair(locator) ==
    LET cs == Components(locator)
        given(k) == Len(cs) >= k /\ cs[k] # <<>> /\ cs[k] # <<"*">>
        vendor == IF Len(cs) >= 5 THEN cs[4] ELSE <<"*">>
        product == IF Len(cs) >= 5 THEN cs[5] ELSE cs[4]
        version == IF Len(cs) >= 5 /\ given(6) THEN cs[6] ELSE <<"*">>
    IN <<"c","p","e",":","2",".","3",":">> \o cs[3] \o <<":">> \o Sanitized(vendor) \o <<":">> \o Sanitized(product)
          \o <<":">> \o Sanitized(version) \o <<":","*",":","*",":","*",":","*",":","*",":","*",":","*">>

\* C23: every cpe23Type locator with at least 4 colon-delimited components
\* that fails the grammar is repaired to the reference construction: part
\* from the 3rd component, vendor, product and version from the 4th to 6th
\* as the steps say, each sanitized, then the wildcard trailing fields.
C23_ReferenceConstruction ==
    pc = "cleaned" =>
        \A i \in 1..Len(refs) :
            /\ refs[i].Type = "cpe23Type"
            /\ Len(Components(refs[i].Locator)) >= 4
            /\ ~cpePattern(refs[i].Locator)
            => cleaned[i].Locator = ReferenceRepair(refs[i].Locator)
---------------------------------------------------------------------------
(* Merger.Merge, mergeCreators, renumberSPDXID                             *)

DocumentID == <<"S","P","D","X","R","e","f","-","D","O","C","U","M","E","N","T">>

SystemID == <<"S","P","D","X","R","e","f","-","S","y","s","t","e","m">>

UbuntuSystemID == <<"S","P","D","X","R","e","f","-","U","b","u","n","t","u","-","S","y","s","t","e","m">>

Marker == <<"S","P","D","X","R","e","f","-">>

mergerTool == "Tool: ubuntu-nix-sbom-merger-1.0"

Package(id, name, version, externalRefs) ==
    [SPDXID |-> id, Name |-> name, PackageVersion |-> version,
     ExternalRefs |-> externalRefs]

Relationship(element, related, type) ==
    [SPDXElementID |-> element, RelatedSPDXElement |-> related,
     RelationshipType |-> type]

\* The root package Merge creates.
systemPkg == Package(SystemID, <<"U","b","u","n","t","u","-","N","i","x","-","S","y","s","t","e","m">>, "", <<>>)

\* The creators of one document appended to the list, skipping those seen.
RECURSIVE addCreators(_, _)
addCreators(creators, more) ==
    IF more = <<>> THEN creators
    ELSE addCreators(IF \E i \in 1..Len(creators) : creators[i] = Head(more)
                     THEN creators ELSE Append(creators, Head(more)),
                     Tail(more))

\* A faulty union: the merger tool appended whether present or not.
mergeCreatorsAppending(ubuntu, nix) ==
    Append(addCreators(addCreators(<<>>, ubuntu.Creators), nix.Creators),
           mergerTool)

mergeCreators(ubuntu, nix) ==
    addCreators(addCreators(addCreators(<<>>, ubuntu.Creators), nix.Creators),
                <<mergerTool>>)

\* regexp SPDXRef-(.+) and FindStringSubmatch: the leftmost place where the
\* marker is followed by a character other than a line feed, and from there
\* the longest run without a line feed; the fallback when there is none.
renumberSPDXID(originalID, prefix) ==
    LET found == {i \in 1..Len(originalID) :
                    /\ HasPrefix(Drop(originalID, i - 1), Marker)
                    /\ Len(originalID) >= i + Len(Marker)
                    /\ originalID[i + Len(Marker)] # "\n"}
    IN IF found # {}
       THEN LET at == CHOOSE i \in found : \A j \in found : i <= j
                rest == Drop(originalID, at + Len(Marker) - 1)
                breaks == {k \in 1..Len(rest) : rest[k] = "\n"}
                baseName == IF breaks = {} THEN rest
                            ELSE SubSeq(rest, 1,
                                   (CHOOSE k \in breaks : \A j \in breaks : k <= j) - 1)
            IN Marker \o prefix \o <<"-">> \o baseName
       ELSE Marker \o prefix \o <<"-">> \o TrimPrefix(originalID, Marker)

\* The test that skips a package of the Ubuntu document.
ubuntuRoot(pkg) == pkg.SPDXID = UbuntuSystemID \/ pkg.SPDXID = SystemID

\* The test that skips a package of the Nix document.
nixRoot(pkg) ==
    /\ Contains(ToLower(pkg.Name), <<"s","y","s","t","e","m">>)
    /\ (pkg.SPDXID = DocumentID \/ HasSuffix(pkg.SPDXID, <<"-","S","y","s","t","e","m">>))

\* A faulty ensurePrefix: the identifier left as it came.
ensurePrefixNever(pkg, prefix) == pkg

ensurePrefix(pkg, prefix) ==
    IF ~HasPrefix(pkg.SPDXID, Marker \o prefix \o <<"-">>)
    THEN [pkg EXCEPT !.SPDXID = renumberSPDXID(pkg.SPDXID, prefix)]
    ELSE pkg

\* A faulty append: the CONTAINS relationship left out.
appendPackageOnly(doc, pkg) ==
    [doc EXCEPT !.Packages = Append(@, pkg)]

\* The package and its CONTAINS relationship appended to the document.
appendPackage(doc, pkg) ==
    [doc EXCEPT !.Packages = Append(@, pkg),
                !.Relationships =
                    Append(@, Relationship(SystemID, pkg.SPDXID, "CONTAINS"))]

\* The loop over ubuntuDoc.Packages: the document and the count it leaves.
RECURSIVE ubuntuLoop(_, _, _)
ubuntuLoop(pkgs, doc, count) ==
    IF pkgs = <<>> THEN [doc |-> doc, count |-> count]
    ELSE IF ubuntuRoot(Head(pkgs)) THEN ubuntuLoop(Tail(pkgs), doc, count)
    ELSE ubuntuLoop(Tail(pkgs),
                    appendPackage(doc, ensurePrefix(Head(pkgs), <<"U","b","u","n","t","u">>)),
                    count + 1)

\* The loop over nixDoc.Packages.
RECURSIVE nixLoop(_, _, _)
nixLoop(pkgs, doc, count) ==
    IF pkgs = <<>> THEN [doc |-> doc, count |-> count]
    ELSE IF nixRoot(Head(pkgs)) THEN nixLoop(Tail(pkgs), doc, count)
    ELSE LET pkg == ensurePrefix(Head(pkgs), <<"N","i","x">>)
             fixed == [pkg EXCEPT !.ExternalRefs = cleanExternalRefs(@)]
         IN nixLoop(Tail(pkgs), appendPackage(doc, fixed), count + 1)

\* The loop over nixDoc.Packages of the stand-alone merge binary: the
\* package is appended with the external references it came with.
RECURSIVE sbomMergerNixLoop(_, _, _)
sbomMergerNixLoop(pkgs, doc, count) ==
    IF pkgs = <<>> THEN [doc |-> doc, count |-> count]
    ELSE IF nixRoot(Head(pkgs)) THEN sbomMergerNixLoop(Tail(pkgs), doc, count)
    ELSE sbomMergerNixLoop(Tail(pkgs),
                           appendPackage(doc, ensurePrefix(Head(pkgs), <<"N","i","x">>)),
                           count + 1)

\* The document before the loops: the root package and DESCRIBES.
newMergedDoc(ubuntu, nix) ==
    [SPDXID |-> DocumentID,
     Creators |-> mergeCreators(ubuntu, nix),
     Packages |-> <<systemPkg>>,
     Relationships |-> <<Relationship(DocumentID, SystemID, "DESCRIBES")>>]

\* The document Merge builds from two loaded documents, and its counters.
merged(ubuntu, nix) ==
    LET afterUbuntu == ubuntuLoop(ubuntu.Packages, newMergedDoc(ubuntu, nix), 0)
        afterNix == nixLoop(nix.Packages, afterUbuntu.doc, 0)
    IN [doc |-> afterNix.doc,
        ubuntuCount |-> afterUbuntu.count,
        nixCount |-> afterNix.count]

\* The document SBOMMerger.Merge of the stand-alone merge binary builds.
sbomMerged(ubuntu, nix) ==
    LET afterUbuntu == ubuntuLoop(ubuntu.Packages, newMergedDoc(ubuntu, nix), 0)
        afterNix == sbomMergerNixLoop(nix.Packages, afterUbuntu.doc, 0)
    IN [doc |-> afterNix.doc,
        ubuntuCount |-> afterUbuntu.count,
        nixCount |-> afterNix.count]

---------------------------------------------------------------------------
(* The merger's inputs and its specification.                              *)

\* Most packages in the two input documents together.
MaxPackages == 3

PackagePool ==
    { Package(<<"S","P","D","X","R","e","f","-","a">>, <<"b","a","s","h">>, "5.2", <<>>),
      Package(<<"S","P","D","X","R","e","f","-","U","b","u","n","t","u","-","a">>, <<"b","a","s","h">>, "5.2", <<>>),
      Package(<<"S","P","D","X","R","e","f","-","N","i","x","-","a">>, <<"p","g","_","c","r","o","n">>, "1.6",
              <<Ref("SECURITY", "cpe23Type", PgCronLocator)>>),
      Package(SystemID, <<"U","b","u","n","t","u","-","S","y","s","t","e","m">>, "", <<>>),
      Package(UbuntuSystemID, <<"U","b","u","n","t","u","-","S","y","s","t","e","m">>, "", <<>>),
      Package(SystemID, <<"b","a","s","h">>, "5.2", <<>>),
      Package(DocumentID, <<"N","i","x","O","S","-","S","Y","S","T","E","M">>, "", <<>>),
      Package(<<"a">>, <<"b","a","s","h">>, "5.2", <<>>),
      Package(<<"x","S","P","D","X","R","e","f","-","a">>, <<"b","a","s","h">>, "5.2", <<>>),
      Package(<<"S","P","D","X","R","e","f","-","a","\n","b">>, <<"s","y","s","t","e","m","d">>, "255", <<>>) }

PackageLists(n) == UNION {[1..k -> PackagePool] : k \in 0..n}

InputDocument(creators, packages) ==
    [SPDXID |-> DocumentID, Creators |-> creators, Packages |-> packages,
     Relationships |-> <<>>]

InitMerge ==
    /\ pc = "loaded"
    /\ \E a \in PackageLists(MaxPackages) :
          \E b \in PackageLists(MaxPackages - Len(a)) :
             /\ ubuntuDoc = InputDocument(<<"Tool: ubuntu-sbom-generator-1.0">>, a)
             /\ nixDoc = InputDocument(<<"Tool: sbomnix">>, b)
    /\ mergedDoc = Idle /\ merger = Idle
    /\ ubuntuCount = 0 /\ nixCount = 0
    /\ LicenseIdle
    /\ GenerateIdle /\ CommandIdle /\ UUIDIdle
    /\ refs = Idle /\ cleaned = Idle /\ recleaned = Idle

\* Merger.Merge of the sbom commands, from the two loaded documents to the
\* returned document.
Merge ==
    /\ pc = "loaded"
    /\ LET result == merged(ubuntuDoc, nixDoc)
       IN /\ mergedDoc' = result.doc
          /\ ubuntuCount' = result.ubuntuCount
          /\ nixCount' = result.nixCount
    /\ merger' = "Merger"
    /\ pc' = "merged"
    /\ UNCHANGED <<ubuntuDoc, nixDoc, licenseVars, cpeVars,
                 generateVars, commandVars, uuidVars>>

\* SBOMMerger.Merge of the stand-alone merge binary.
MergeStandalone ==
    /\ pc = "loaded"
    /\ LET result == sbomMerged(ubuntuDoc, nixDoc)
       IN /\ mergedDoc' = result.doc
          /\ ubuntuCount' = result.ubuntuCount
          /\ nixCount' = result.nixCount
    /\ merger' = "SBOMMerger"
    /\ pc' = "merged"
    /\ UNCHANGED <<ubuntuDoc, nixDoc, licenseVars, cpeVars,
                 generateVars, commandVars, uuidVars>>

NextMerge == Merge \/ MergeStandalone

SpecMerge == InitMerge /\ [][NextMerge]_vars

---------------------------------------------------------------------------
(* Claims about the merger.                                                *)

DistinctIDs(pkgs) ==
    \A i, j \in 1..Len(pkgs) : pkgs[i].SPDXID = pkgs[j].SPDXID => i = j

\* The packages of an input document that Merge keeps, in order.
KeptUbuntu == SelectSeq(ubuntuDoc.Packages, LAMBDA p : ~ubuntuRoot(p))

KeptNix == SelectSeq(nixDoc.Packages, LAMBDA p : ~nixRoot(p))

\* C8: when the package identifiers are pairwise distinct within each input
\* document, no two packages of the merged document share an identifier.
C8_MergedIDsDistinct ==
    pc = "merged" /\ DistinctIDs(ubuntuDoc.Packages) /\ DistinctIDs(nixDoc.Packages)
        => DistinctIDs(mergedDoc.Packages)

\* The identifier the claim describes: unchanged when it carries the tag,
\* else the tag inserted after "SPDXRef-" and the remainder preserved.
Tagged(id, tag) ==
    IF HasPrefix(id, Marker \o tag \o <<"-">>) THEN id
    ELSE Marker \o tag \o <<"-">> \o TrimPrefix(id, Marker)

\* C9: every package from docA has an identifier starting "SPDXRef-Ubuntu-",
\* every package from docB one starting "SPDXRef-Nix-"; an identifier that
\* carried its tag is unchanged, any other has the tag inserted after
\* "SPDXRef-" with the remainder preserved.
C9_NamespaceTags ==
    pc = "merged" =>
        /\ \A i \in 1..Len(KeptUbuntu) :
              LET id == mergedDoc.Packages[1 + i].SPDXID
              IN /\ HasPrefix(id, <<"S","P","D","X","R","e","f","-","U","b","u","n","t","u","-">>)
                 /\ id = Tagged(KeptUbuntu[i].SPDXID, <<"U","b","u","n","t","u">>)
        /\ \A i \in 1..Len(KeptNix) :
              LET id == mergedDoc.Packages[1 + Len(KeptUbuntu) + i].SPDXID
              IN /\ HasPrefix(id, <<"S","P","D","X","R","e","f","-","N","i","x","-">>)
                 /\ id = Tagged(KeptNix[i].SPDXID, <<"N","i","x">>)

\* C10: the merged document has 1 + kept(docA) + kept(docB) relationships
\* and as many packages: DESCRIBES first, then one CONTAINS per kept
\* package, the i-th targeting the identifier of the i-th kept package.
C10_RelationshipCount ==
    pc = "merged" =>
        LET n == 1 + Len(KeptUbuntu) + Len(KeptNix)
        IN /\ Len(mergedDoc.Relationships) = n
           /\ Len(mergedDoc.Packages) = n
           /\ ubuntuCount = Len(KeptUbuntu)
           /\ nixCount = Len(KeptNix)
           /\ mergedDoc.Relationships[1] =
                 Relationship(DocumentID, SystemID, "DESCRIBES")
           /\ \A i \in 2..n :
                 mergedDoc.Relationships[i] =
                    Relationship(SystemID, mergedDoc.Packages[i].SPDXID, "CONTAINS")

\* Packages of both documents are kept and a prior root is dropped.
C10_Witness ==
    /\ pc = "merged"
    /\ ubuntuCount >= 1
    /\ nixCount >= 1
    /\ Len(ubuntuDoc.Packages) + Len(nixDoc.Packages) > ubuntuCount + nixCount
    /\ Len(mergedDoc.Relationships) = 1 + ubuntuCount + nixCount

---------------------------------------------------------------------------
(* The Ubuntu generator: Generator.Generate, getInstalledPackages,         *)
(* getPackageLicense, packageToSPDX, calculatePackageChecksum, hashFile    *)
(* and the ubuntu command that runs them.  The copies in src/main.go and   *)
(* src/unnamed/part_001 differ only in the replacements table.             *)

\* fmt's %d for a natural number.
Itoa(n) ==
    LET digit(d) == <<(<<"0","1","2","3","4","5","6","7","8","9">>)[d + 1]>>
        RECURSIVE itoa(_)
        itoa(m) == IF m < 10 THEN digit(m) ELSE itoa(m \div 10) \o digit(m % 10)
    IN itoa(n)

\* A faulty sanitizeName: the name as it is.
sanitizeNameKept(name) == name

\* regexp [^a-zA-Z0-9-.] and ReplaceAllString(name, "-")
sanitizeName(name) ==
    [i \in 1..Len(name) |-> IF name[i] \in TokenChars THEN name[i] ELSE "-"]

\* A file as os.ReadFile and os.Open see it.
Unreadable == [ok |-> FALSE, data |-> <<>>]

Readable(data) == [ok |-> TRUE, data |-> data]

\* A command as exec.Command(...).Output() sees it: its lines, or a failure.
Failed == [ok |-> FALSE, lines |-> <<>>]

Succeeded(lines) == [ok |-> TRUE, lines |-> lines]

\* regexp (?i)License:\s*(.+?)(?:\n\n|\n[A-Z]|\z) and FindStringSubmatch:
\* the set holding the first submatch, empty when the text has no match.
\* The capture cannot hold a line feed and every terminator starts at a
\* line feed or at the end of the text, so the capture runs to the end of
\* its line; \s* takes the longest run of white space that lets the rest
\* match; under (?i) the class [A-Z] takes the letters of both cases.
licenseRe(text) ==
    LET n == Len(text)
        key == <<"l","i","c","e","n","s","e",":">>
        lineEnd(c) == CHOOSE e \in c..n :
                         /\ \A j \in c..e : text[j] # "\n"
                         /\ (e = n \/ text[e + 1] = "\n")
        terminated(e) ==
            \/ e = n
            \/ e + 2 <= n /\ text[e + 1] = "\n"
                          /\ text[e + 2] \in {"\n"} \cup Letters
        space(p) == {k \in 0..(n - p + 1) :
                        \A j \in p..(p + k - 1) : text[j] \in WhiteSpace}
        captures(p) == {k \in space(p) :
                          /\ p + k <= n
                          /\ text[p + k] # "\n"
                          /\ terminated(lineEnd(p + k))}
        starts == {i \in 1..(n - Len(key) + 1) :
                     /\ ToLower(SubSeq(text, i, i + Len(key) - 1)) = key
                     /\ captures(i + Len(key)) # {}}
    IN IF starts = {} THEN {}
       ELSE LET i == CHOOSE s \in starts : \A t \in starts : s <= t
                p == i + Len(key)
                k == CHOOSE a \in captures(p) : \A b \in captures(p) : b <= a
            IN {SubSeq(text, p + k, lineEnd(p + k))}

MaxCopyrightLen == 200

\* A faulty result for a failed read: the copyright text left empty.
readFailedBlank == <<NOASSERTION, <<>>>>

\* What getPackageLicense returns when os.ReadFile fails.
readFailed == <<NOASSERTION, NOASSERTION>>

\* The pairs <<license, copyright>> getPackageLicense can return for the
\* file /usr/share/doc/<name>/copyright.
getPackageLicense(sys, packageName) ==
    LET file == sys.copyright[packageName]
        text == file.data
        licenses == IF licenseRe(text) = {} THEN {NOASSERTION}
                    ELSE UNION {normalizeLicense("ubuntu", TrimSpace(m)) :
                                   m \in licenseRe(text)}
        copyright == IF Len(text) = 0 THEN NOASSERTION
                     ELSE IF Len(text) > MaxCopyrightLen
                          THEN SubSeq(text, 1, MaxCopyrightLen) \o <<".",".",".">>
                     ELSE text
    IN IF ~file.ok THEN {readFailed}
       ELSE {<<l, copyright>> : l \in licenses}

\* The test of getInstalledPackages on the fields of a line.
installed(parts) == Len(parts) >= 7 /\ Contains(parts[4], <<"i","n","s","t","a","l","l","e","d">>)

\* The lists of packages getInstalledPackages can return for the lines of
\* dpkg-query.
RECURSIVE getInstalledPackages(_, _)
getInstalledPackages(sys, lines) ==
    IF lines = <<>> THEN {<<>>}
    ELSE LET parts == Split(Head(lines), "\t")
             rest == getInstalledPackages(sys, Tail(lines))
         IN IF installed(parts)
            THEN {<<[Name |-> parts[1], Version |-> parts[2],
                     Architecture |-> parts[3], Status |-> parts[4],
                     Maintainer |-> parts[5], Homepage |-> parts[6],
                     Description |-> parts[7],
                     License |-> lc[1], Copyright |-> lc[2]]>> \o r :
                    lc \in getPackageLicense(sys, parts[1]), r \in rest}
            ELSE rest

\* The hex digest of SHA-256, as an injective function of the data hashed.
sha256(data) == <<"sha256", data>>

hashFile(sys, path) ==
    IF path \in sys.unreadable THEN <<>> ELSE sha256(<<"contents", path>>)

\* The digest over the hashes of the listed files that could be hashed, or
\* the empty string when dpkg -L fails.
calculatePackageChecksum(sys, packageName) ==
    LET listing == sys.listing[packageName]
        RECURSIVE written(_)
        written(paths) ==
            IF paths = <<>> THEN <<>>
            ELSE LET filePath == Head(paths)
                 IN IF filePath = <<>> \/ HasSuffix(filePath, <<"/">>)
                    THEN written(Tail(paths))
                    ELSE IF hashFile(sys, filePath) # <<>>
                         THEN <<hashFile(sys, filePath)>> \o written(Tail(paths))
                         ELSE written(Tail(paths))
    IN IF ~listing.ok THEN <<>> ELSE sha256(written(listing.lines))

None == <<"(","n","o","n","e",")">>

packageToSPDX(g, sys, pkg, id) ==
    [SPDXID |-> <<"S","P","D","X","R","e","f","-","U","b","u","n","t","u","-","P","a","c","k","a","g","e","-">> \o Itoa(id) \o <<"-">> \o sanitizeName(pkg.Name),
     Name |-> pkg.Name,
     PackageVersion |-> pkg.Version,
     DownloadLocation |-> NOASSERTION,
     FilesAnalyzed |-> FALSE,
     LicenseConcluded |-> pkg.License,
     LicenseDeclared |-> pkg.License,
     CopyrightText |-> pkg.Copyright,
     Description |-> pkg.Description,
     HomePage |-> IF pkg.Homepage # <<>> /\ pkg.Homepage # None
                  THEN pkg.Homepage ELSE <<>>,
     Supplier |-> IF pkg.Maintainer # <<>> /\ pkg.Maintainer # None
                  THEN <<"O","r","g","a","n","i","z","a","t","i","o","n",":"," ">> \o pkg.Maintainer ELSE <<>>,
     ExternalRefs |-> <<Ref("PACKAGE-MANAGER", "purl",
                            <<"p","k","g",":","d","e","b","/","u","b","u","n","t","u","/">> \o pkg.Name \o <<"@">> \o pkg.Version
                                \o <<"?","a","r","c","h","=">> \o pkg.Architecture)>>,
     Checksums |-> IF g.IncludeFiles
                      /\ calculatePackageChecksum(sys, pkg.Name) # <<>>
                   THEN <<[Algorithm |-> "SHA256",
                           Value |-> calculatePackageChecksum(sys, pkg.Name)]>>
                   ELSE <<>>]

rootPkg ==
    [SPDXID |-> UbuntuSystemID,
     Name |-> <<"U","b","u","n","t","u","-","S","y","s","t","e","m">>,
     PackageVersion |-> <<>>,
     DownloadLocation |-> NOASSERTION,
     FilesAnalyzed |-> FALSE,
     LicenseConcluded |-> NOASSERTION,
     LicenseDeclared |-> NOASSERTION,
     CopyrightText |-> NOASSERTION,
     Description |-> <<>>, HomePage |-> <<>>, Supplier |-> <<>>,
     ExternalRefs |-> <<>>, Checksums |-> <<>>]

\* A faulty step of the loop: the CONTAINS relationship put first.
addPackageFirst(d, spdxPkg) ==
    [d EXCEPT !.Packages = Append(@, spdxPkg),
              !.Relationships =
                  <<Relationship(UbuntuSystemID, spdxPkg.SPDXID, "CONTAINS")>> \o @]

\* One step of the loop of Generate: the package and its relationship.
addPackage(d, spdxPkg) ==
    [d EXCEPT !.Packages = Append(@, spdxPkg),
              !.Relationships =
                  Append(@, Relationship(UbuntuSystemID, spdxPkg.SPDXID, "CONTAINS"))]

ProgressEvery == 100

\* The loop of Generate from index i on: the document and the lines printed.
RECURSIVE generateLoop(_, _, _, _, _, _)
generateLoop(g, sys, packages, i, d, out) ==
    IF i >= Len(packages) THEN [doc |-> d, stdout |-> out]
    ELSE generateLoop(g, sys, packages, i + 1,
                      addPackage(d, packageToSPDX(g, sys, packages[i + 1], i + 1)),
                      IF g.ShowProgress /\ i % ProgressEvery = 0
                      THEN Append(out, <<"Processing package", i + 1, Len(packages)>>)
                      ELSE out)

\* The outcomes Generate can have: the document or the error it returns
\* and the lines it prints.
Generate(g, sys) ==
    IF ~sys.query.ok
    THEN {[doc |-> Idle, err |-> "failed to get packages", stdout |-> <<>>]}
    ELSE {LET d == [SPDXID |-> DocumentID,
                    Creators |-> <<"Tool: ubuntu-sbom-generator-1.0">>,
                    Packages |-> <<rootPkg>>,
                    Relationships |-> <<>>]
              run == generateLoop(g, sys, packages, 0, d,
                                  <<<<"Found installed packages", Len(packages)>>>>)
          IN [doc |-> [run.doc EXCEPT !.Relationships =
                          Append(@, Relationship(DocumentID, UbuntuSystemID,
                                                 "DESCRIBES"))],
              err |-> "nil",
              stdout |-> run.stdout] :
          packages \in getInstalledPackages(sys, sys.query.lines)}

\* A faulty flag rule: --no-progress ignored.
showProgressOnly(f) == f.progress

\* ubuntuCommand: showProgress := *progress && !*noProgress
showProgress(f) == f.progress /\ ~f.noProgress

NewGenerator(includeFiles, progress) ==
    [IncludeFiles |-> includeFiles, ShowProgress |-> progress]

---------------------------------------------------------------------------
(* The generator's inputs and its specification.                           *)

\* Most lines in the output of dpkg-query.
MaxLines == 2

\* Lines of dpkg-query -W: two installed packages, one removed package and
\* a line with fewer than seven fields.
QueryLines ==
    { <<"b","a","s","h","\t","5",".","2","\t","a","m","d","6","4","\t","i","n","s","t","a","l","l"," ","o","k"," ","i","n","s","t","a","l","l","e","d","\t","M","a","t","t","\t","h","t","t","p","s",":","/","/","b","\t","s","h","e","l","l">>,
      <<"g","+","+","\t","1","3","\t","a","l","l","\t","h","o","l","d"," ","o","k"," ","i","n","s","t","a","l","l","e","d","\t","(","n","o","n","e",")","\t","\t","c","+","+">>,
      <<"v","i","m","\t","9",".","1","\t","a","l","l","\t","d","e","i","n","s","t","a","l","l"," ","o","k"," ","c","o","n","f","i","g","-","f","i","l","e","s","\t","m","\t","\t","e","d","i","t","o","r">>,
      <<"s","h","o","r","t","\t","1">> }

LineLists(n) == UNION {[1..k -> QueryLines] : k \in 0..n}

\* The names of the packages a list of lines makes Generate look up.
NamesOf(lines) ==
    {Split(lines[i], "\t")[1] : i \in {j \in 1..Len(lines) :
                                          installed(Split(lines[j], "\t"))}}

CopyrightFiles ==
    { Unreadable,
      Readable(<<"L","i","c","e","n","s","e",":"," ","G","P","L","-","3","+","\n","\n","x">>),
      Readable(<<"l","i","c","e","n","s","e",":"," ","M","I","T","\n">>) }

\* What dpkg -L prints for a package: a directory, two files, an empty line.
Listing(name) ==
    <<<<"/","u","s","r","/">>, <<"/","u","s","r","/">> \o name, <<>>, <<"/","e","t","c","/">> \o name>>

\* dpkg -L of a package fails, or lists files, the first of which may be
\* unreadable.
Listings(name) ==
    { [out |-> Failed, unreadable |-> {}],
      [out |-> Succeeded(Listing(name)), unreadable |-> {}],
      [out |-> Succeeded(Listing(name)), unreadable |-> {<<"/","u","s","r","/">> \o name}] }

System(query, copyright, listings) ==
    [query |-> query,
     copyright |-> copyright,
     listing |-> [n \in DOMAIN listings |-> listings[n].out],
     unreadable |-> UNION {listings[n].unreadable : n \in DOMAIN listings}]

Systems ==
    {System(Failed, <<>>, <<>>)} \cup
    UNION { {System(Succeeded(lines), c, l) :
                c \in [NamesOf(lines) -> CopyrightFiles],
                l \in {f \in [NamesOf(lines) ->
                                 UNION {Listings(n) : n \in NamesOf(lines)}] :
                          \A n \in NamesOf(lines) : f[n] \in Listings(n)}} :
            lines \in LineLists(MaxLines) }

Flags == [includeFiles : BOOLEAN, progress : BOOLEAN, noProgress : BOOLEAN]

InitGenerate ==
    /\ pc = "ubuntu"
    /\ flags \in Flags
    /\ system \in Systems
    /\ sbom = Idle /\ stdout = Idle
    /\ files = Idle /\ outputFile = Idle /\ exitCode = Idle /\ err = Idle
    /\ tmpDir = Idle
    /\ LicenseIdle /\ CPEIdle /\ MergeIdle /\ UUIDIdle

\* ubuntuCommand after flag parsing: Generate, then Save unless it failed;
\* Save can fail to create the output file.
UbuntuCommand ==
    /\ pc = "ubuntu"
    /\ \E outcome \in Generate(NewGenerator(flags.includeFiles, showProgress(flags)),
                               system) :
       \E created \in BOOLEAN :
          /\ sbom' = outcome.doc
          /\ err' = outcome.err
          /\ IF outcome.err # "nil"
             THEN /\ outputFile' = outputFile
                  /\ exitCode' = 1
                  /\ stdout' = outcome.stdout
             ELSE IF ~created
             THEN /\ outputFile' = outputFile
                  /\ exitCode' = 1
                  /\ stdout' = outcome.stdout
             ELSE /\ outputFile' = outcome.doc
                  /\ exitCode' = 0
                  /\ stdout' = Append(outcome.stdout,
                                      <<"Ubuntu SBOM generated successfully">>)
    /\ pc' = "exited"
    /\ UNCHANGED <<flags, system, files, tmpDir,
                 licenseVars, cpeVars, mergeVars, uuidVars>>

NextGenerate == UbuntuCommand

SpecGenerate == InitGenerate /\ [][NextGenerate]_vars

---------------------------------------------------------------------------
(* Claims about the generator.                                             *)

\* The lines of dpkg-query that getInstalledPackages accepts, in order.
Accepted ==
    SelectSeq(system.query.lines, LAMBDA l : installed(Split(l, "\t")))

\* The generator the command built from its flags.
Built == NewGenerator(flags.includeFiles, showProgress(flags))

ProgressLines ==
    {i \in 1..Len(stdout) : stdout[i][1] = "Processing package"}

\* C11: for N accepted packages the document holds N+1 packages with the
\* root first, N CONTAINS relationships from the root to the packages in
\* input order, and after them one DESCRIBES relationship.
C11_AssembledShape ==
    pc = "exited" /\ err = "nil" =>
        LET accepted == Accepted
            n == Len(accepted)
        IN /\ Len(sbom.Packages) = n + 1
           /\ sbom.Packages[1] = rootPkg
           /\ Len(sbom.Relationships) = n + 1
           /\ \A i \in 1..n :
                 /\ sbom.Packages[i + 1].Name = Split(accepted[i], "\t")[1]
                 /\ sbom.Relationships[i] =
                       Relationship(UbuntuSystemID, sbom.Packages[i + 1].SPDXID,
                                    "CONTAINS")
           /\ sbom.Relationships[n + 1] =
                 Relationship(DocumentID, UbuntuSystemID, "DESCRIBES")

\* Two different packages are accepted.
C11_Witness ==
    /\ pc = "exited" /\ err = "nil"
    /\ Len(Accepted) = 2
    /\ sbom.Packages[2].Name # sbom.Packages[3].Name
    /\ Len(sbom.Relationships) = 3

\* The listing of a package failed or one of its files cannot be read.
ChecksumFailed(name) ==
    \/ ~system.listing[name].ok
    \/ \E i \in 1..Len(system.listing[name].lines) :
          system.listing[name].lines[i] \in system.unreadable

\* C16: with checksums enabled, a package whose file listing fails or one
\* of whose listed files cannot be read is emitted without a checksum
\* entry, and generation still succeeds.
C16_FailedChecksumOmitted ==
    pc = "exited" /\ system.query.ok /\ flags.includeFiles =>
        /\ err = "nil"
        /\ Len(sbom.Packages) = Len(Accepted) + 1
        /\ \A i \in 2..Len(sbom.Packages) :
              ChecksumFailed(sbom.Packages[i].Name) => sbom.Packages[i].Checksums = <<>>

\* C17: a package whose copyright file cannot be read is still emitted, its
\* licenseConcluded, licenseDeclared and copyrightText are "NOASSERTION",
\* no error is returned, and the other packages are what Generate can
\* produce for them whatever that file holds.
C17_UnreadableCopyright ==
    pc = "exited" /\ system.query.ok =>
        /\ err = "nil"
        /\ Len(sbom.Packages) = Len(Accepted) + 1
        /\ \A i \in 2..Len(sbom.Packages) :
              LET name == sbom.Packages[i].Name
              IN ~system.copyright[name].ok =>
                    /\ sbom.Packages[i].LicenseConcluded = NOASSERTION
                    /\ sbom.Packages[i].LicenseDeclared = NOASSERTION
                    /\ sbom.Packages[i].CopyrightText = NOASSERTION
                    /\ \A file \in CopyrightFiles :
                          \E other \in Generate(Built,
                                         [system EXCEPT !.copyright[name] = file]) :
                             /\ other.err = "nil"
                             /\ Len(other.doc.Packages) = Len(sbom.Packages)
                             /\ \A j \in 1..Len(sbom.Packages) :
                                   sbom.Packages[j].Name # name =>
                                       other.doc.Packages[j] = sbom.Packages[j]

\* One package's copyright file is unreadable, another's yields a license.
C17_Witness ==
    /\ pc = "exited" /\ err = "nil"
    /\ Len(sbom.Packages) = 3
    /\ ~system.copyright[sbom.Packages[2].Name].ok
    /\ sbom.Packages[2].CopyrightText = NOASSERTION
    /\ system.copyright[sbom.Packages[3].Name].ok
    /\ sbom.Packages[3].LicenseConcluded = <<"G","P","L","-","3",".","0","-","o","r","-","l","a","t","e","r">>

\* C19: Generate with progress enabled and with progress disabled returns
\* the same packages and relationships, and with progress disabled, also by
\* --no-progress given together with --progress, no "Processing package"
\* line is printed.
C19_ProgressSuppressible ==
    pc = "exited" /\ err = "nil" =>
        /\ \E other \in Generate(NewGenerator(flags.includeFiles, ~Built.ShowProgress),
                                 system) :
              /\ other.doc.Packages = sbom.Packages
              /\ other.doc.Relationships = sbom.Relationships
        /\ (~flags.progress \/ flags.noProgress) => ProgressLines = {}

\* --no-progress overrides --progress while packages are processed.
C19_Witness ==
    /\ pc = "exited" /\ err = "nil"
    /\ flags.progress /\ flags.noProgress
    /\ Len(sbom.Packages) > 1
    /\ ProgressLines = {}

---------------------------------------------------------------------------
(* The merge step of the commands: loadDocument on both paths, Merge and   *)
(* Save (merger.go, the combined command of src/unnamed/part_002 and the   *)
(* merge binary of src/unnamed/part_001).                                  *)

\* JSON values, as the text of a file denotes them.
JNull == [kind |-> "null"]

JString(s) == [kind |-> "string", value |-> s]

JArray(items) == [kind |-> "array", items |-> items]

\* fields: a function from member names to JSON values
JObject(fields) == [kind |-> "object", fields |-> fields]

\* The data of a file that is not JSON text, and of one that denotes v.
Malformed == [json |-> FALSE, value |-> JNull]

Text(v) == [json |-> TRUE, value |-> v]

\* The outcome of decoding a JSON value into a Go value.
Decoded(v) == [ok |-> TRUE, value |-> v]

DecodeError == [ok |-> FALSE, value |-> <<>>]

\* A member of an object, null when the object has no such member:
\* json.Unmarshal leaves the field of an absent or null member at its zero
\* value.
member(obj, key) ==
    IF obj.kind = "object" /\ key \in DOMAIN obj.fields
    THEN obj.fields[key] ELSE JNull

\* The elements of an array, none for any other value.
items(v) == IF v.kind = "array" THEN v.items ELSE <<>>

\* json.Unmarshal into a string field.
decodeString(v) ==
    IF v.kind = "null" THEN Decoded(<<>>)
    ELSE IF v.kind = "string" THEN Decoded(v.value)
    ELSE DecodeError

\* json.Unmarshal into a slice; elements holds the outcome of decoding
\* each element of the array.
decodeSlice(v, elements) ==
    IF v.kind = "null" THEN Decoded(<<>>)
    ELSE IF v.kind # "array" THEN DecodeError
    ELSE IF \E i \in 1..Len(elements) : ~elements[i].ok THEN DecodeError
    ELSE Decoded([i \in 1..Len(elements) |-> elements[i].value])

\* json.Unmarshal into a struct; fields holds, for every member with a
\* field in the struct, the outcome of decoding it.
decodeStruct(v, zero, fields) ==
    IF v.kind = "null" THEN Decoded(zero)
    ELSE IF v.kind # "object" THEN DecodeError
    ELSE IF \E n \in DOMAIN fields : ~fields[n].ok THEN DecodeError
    ELSE Decoded([n \in DOMAIN fields |-> fields[n].value])

decodeExternalRef(v) ==
    LET d == decodeStruct(v, [referenceCategory |-> <<>>, referenceType |-> <<>>,
                              referenceLocator |-> <<>>],
                          [n \in {"referenceCategory", "referenceType",
                                  "referenceLocator"} |->
                              decodeString(member(v, n))])
    IN IF ~d.ok THEN DecodeError
       ELSE Decoded(Ref(d.value.referenceCategory, d.value.referenceType,
                        d.value.referenceLocator))

decodeExternalRefs(v) ==
    decodeSlice(v, [i \in 1..Len(items(v)) |-> decodeExternalRef(items(v)[i])])

decodePackage(v) ==
    LET d == decodeStruct(v, [SPDXID |-> <<>>, name |-> <<>>, versionInfo |-> <<>>,
                              externalRefs |-> <<>>],
                          [n \in {"SPDXID", "name", "versionInfo", "externalRefs"} |->
                              IF n = "externalRefs"
                              THEN decodeExternalRefs(member(v, n))
                              ELSE decodeString(member(v, n))])
    IN IF ~d.ok THEN DecodeError
       ELSE Decoded(Package(d.value.SPDXID, d.value.name, d.value.versionInfo,
                            d.value.externalRefs))

decodePackages(v) ==
    decodeSlice(v, [i \in 1..Len(items(v)) |-> decodePackage(items(v)[i])])

decodeRelationship(v) ==
    LET d == decodeStruct(v, [spdxElementId |-> <<>>, relatedSpdxElement |-> <<>>,
                              relationshipType |-> <<>>],
                          [n \in {"spdxElementId", "relatedSpdxElement",
                                  "relationshipType"} |->
                              decodeString(member(v, n))])
    IN IF ~d.ok THEN DecodeError
       ELSE Decoded(Relationship(d.value.spdxElementId, d.value.relatedSpdxElement,
                                 d.value.relationshipType))

decodeRelationships(v) ==
    decodeSlice(v, [i \in 1..Len(items(v)) |-> decodeRelationship(items(v)[i])])

decodeCreators(v) ==
    decodeSlice(v, [i \in 1..Len(items(v)) |-> decodeString(items(v)[i])])

decodeCreationInfo(v) ==
    decodeStruct(v, [creators |-> <<>>],
                 [n \in {"creators"} |-> decodeCreators(member(v, n))])

\* json.Unmarshal(data, &doc) for spdx.Document.
decodeDocument(v) ==
    LET d == decodeStruct(v, [SPDXID |-> <<>>, creationInfo |-> [creators |-> <<>>],
                              packages |-> <<>>, relationships |-> <<>>],
                          [n \in {"SPDXID", "creationInfo", "packages",
                                  "relationships"} |->
                             CASE n = "SPDXID" -> decodeString(member(v, n))
                               [] n = "creationInfo" -> decodeCreationInfo(member(v, n))
                               [] n = "packages" -> decodePackages(member(v, n))
                               [] OTHER -> decodeRelationships(member(v, n))])
    IN IF ~d.ok THEN DecodeError
       ELSE Decoded([SPDXID |-> d.value.SPDXID,
                     Creators |-> d.value.creationInfo.creators,
                     Packages |-> d.value.packages,
                     Relationships |-> d.value.relationships])

\* loadDocument: os.ReadFile, then json.Unmarshal.
loadDocument(file) ==
    IF ~file.ok THEN DecodeError
    ELSE IF ~file.data.json THEN DecodeError
    ELSE decodeDocument(file.data.value)

---------------------------------------------------------------------------
(* The input files of the merge step and its specification.                *)

jsonPackage(id, name) ==
    JObject([SPDXID |-> JString(id), name |-> JString(name)])

jsonDocument(creator, packages, relationships) ==
    JObject([SPDXID |-> JString(DocumentID),
             creationInfo |-> JObject([creators |-> JArray(<<JString(creator)>>)]),
             packages |-> JArray(packages),
             relationships |-> JArray(relationships)])

\* A missing file, text that is not JSON, JSON that is not an object, JSON
\* objects without the members of a document or with a member of the wrong
\* type, and two documents.
FilePool ==
    { Unreadable,
      Readable(Malformed),
      Readable(Text(JArray(<<>>))),
      Readable(Text(JNull)),
      Readable(Text(JObject(<<>>))),
      Readable(Text(JObject([packages |-> JString(<<"x">>)]))),
      Readable(Text(JObject([packages |-> JArray(<<jsonPackage(<<"S","P","D","X","R","e","f","-","a">>, <<"b","a","s","h">>)>>)]))),
      Readable(Text(jsonDocument("Tool: ubuntu-sbom-generator-1.0",
                                 <<jsonPackage(UbuntuSystemID, <<"U","b","u","n","t","u","-","S","y","s","t","e","m">>),
                                   jsonPackage(<<"S","P","D","X","R","e","f","-","U","b","u","n","t","u","-","a">>, <<"b","a","s","h">>)>>,
                                 <<>>))),
      Readable(Text(jsonDocument("Tool: sbomnix",
                                 <<jsonPackage(<<"S","P","D","X","R","e","f","-","b">>, <<"g","l","i","b","c">>)>>,
                                 <<JObject([spdxElementId |-> JString(DocumentID),
                                            relatedSpdxElement |-> JString(<<"S","P","D","X","R","e","f","-","b">>),
                                            relationshipType |-> JString(<<"D","E","S","C","R","I","B","E","S">>)])>>))) }

InitMergeCommand ==
    /\ pc = "merge"
    /\ files \in [ubuntu : FilePool, nix : FilePool]
    /\ outputFile = Idle /\ exitCode = Idle /\ err = Idle /\ tmpDir = Idle
    /\ LicenseIdle /\ CPEIdle /\ MergeIdle /\ GenerateIdle /\ UUIDIdle

\* The merge step: Merge on the two paths, log.Fatalf on its error, else
\* Save, which can fail to create the output file.
MergeCommand ==
    /\ pc = "merge"
    /\ LET ubuntu == loadDocument(files.ubuntu)
           nix == loadDocument(files.nix)
       IN IF ~ubuntu.ok
          THEN /\ err' = "failed to load Ubuntu SBOM"
               /\ exitCode' = 1
               /\ UNCHANGED <<mergeVars, outputFile, stdout>>
          ELSE IF ~nix.ok
          THEN /\ err' = "failed to load Nix SBOM"
               /\ exitCode' = 1
               /\ ubuntuDoc' = ubuntu.value
               /\ UNCHANGED <<nixDoc, mergedDoc, ubuntuCount, nixCount, merger,
                              outputFile, stdout>>
          ELSE LET result == merged(ubuntu.value, nix.value)
               IN /\ ubuntuDoc' = ubuntu.value
                  /\ nixDoc' = nix.value
                  /\ mergedDoc' = result.doc
                  /\ ubuntuCount' = result.ubuntuCount
                  /\ nixCount' = result.nixCount
                  /\ merger' = "Merger"
                  /\ stdout' = <<<<"Merged packages", result.ubuntuCount,
                                   result.nixCount>>>>
                  /\ \E created \in BOOLEAN :
                        IF created
                        THEN /\ err' = "nil"
                             /\ exitCode' = 0
                             /\ outputFile' = result.doc
                        ELSE /\ err' = "failed to save merged SBOM"
                             /\ exitCode' = 1
                             /\ outputFile' = outputFile
    /\ pc' = "exited"
    /\ UNCHANGED <<files, tmpDir, flags, system, sbom,
                 licenseVars, cpeVars, uuidVars>>

NextMergeCommand == MergeCommand

SpecMergeCommand == InitMergeCommand /\ [][NextMergeCommand]_vars

\* A file that is missing, is not JSON, or is JSON without the structure
\* of a document: not an object, or an object without packages or without
\* creation info.
BadInput(file) ==
    \/ ~file.ok
    \/ ~file.data.json
    \/ file.data.value.kind # "object"
    \/ "packages" \notin DOMAIN file.data.value.fields
    \/ "creationInfo" \notin DOMAIN file.data.value.fields

\* C12: if either merge input is missing, is not valid JSON, or is JSON
\* that lacks the document structure, Merge returns an error, the command
\* exits with failure and no output file is written.
C12_BadInputAborts ==
    pc = "exited" /\ (BadInput(files.ubuntu) \/ BadInput(files.nix)) =>
        /\ err \in {"failed to load Ubuntu SBOM", "failed to load Nix SBOM"}
        /\ exitCode = 1
        /\ outputFile = Idle

---------------------------------------------------------------------------
(* Merge on documents that carry creators and relationships.               *)

\* Most creators in the creation info of an input document.
MaxCreators == 2

CreatorPool == {"Tool: ubuntu-sbom-generator-1.0", "Tool: sbomnix", mergerTool}

CreatorLists(n) == UNION {[1..k -> CreatorPool] : k \in 0..n}

PgCron ==
    Package(<<"S","P","D","X","R","e","f","-","p","g">>, <<"p","g","_","c","r","o","n">>, "1.6",
            <<Ref("SECURITY", "cpe23Type", PgCronLocator)>>)

Glibc == Package(<<"S","P","D","X","R","e","f","-","g","l","i","b","c">>, <<"g","l","i","b","c">>, "2.39", <<>>)

\* Documents as the generators write them: the packages with a CONTAINS or
\* a DEPENDS_ON relationship between them, or none.
UbuntuDocuments ==
    {InputDocument(c, <<>>) : c \in CreatorLists(MaxCreators)} \cup
    {[InputDocument(c, <<Package(UbuntuSystemID, <<"U","b","u","n","t","u","-","S","y","s","t","e","m">>, "", <<>>), Glibc>>)
         EXCEPT !.Relationships =
                    <<Relationship(UbuntuSystemID, Glibc.SPDXID, "CONTAINS")>>] :
        c \in CreatorLists(MaxCreators)}

NixDocuments ==
    {InputDocument(c, <<PgCron>>) : c \in CreatorLists(MaxCreators)} \cup
    {[InputDocument(c, <<PgCron, Glibc>>)
         EXCEPT !.Relationships =
                    <<Relationship(PgCron.SPDXID, Glibc.SPDXID, "DEPENDS_ON")>>] :
        c \in CreatorLists(MaxCreators)}

InitMergeDocs ==
    /\ pc = "loaded"
    /\ ubuntuDoc \in UbuntuDocuments
    /\ nixDoc \in NixDocuments
    /\ mergedDoc = Idle /\ merger = Idle
    /\ ubuntuCount = 0 /\ nixCount = 0
    /\ LicenseIdle /\ CPEIdle /\ GenerateIdle /\ CommandIdle /\ UUIDIdle

SpecMergeDocs == InitMergeDocs /\ [][NextMerge]_vars

\* The creators of both inputs and the merger tool, in the order read.
AllCreators == ubuntuDoc.Creators \o nixDoc.Creators \o <<mergerTool>>

\* The place where a string first occurs in a list.
First(list, s) ==
    CHOOSE i \in 1..Len(list) : list[i] = s /\ \A j \in 1..(i - 1) : list[j] # s

\* C13: the creators of the merged document are the creators of docA and
\* docB and the merge-tool string, none twice, in first-seen order; the
\* merge-tool string is added at the end only when no input holds it.
C13_CreatorsUnion ==
    pc = "merged" =>
        LET creators == mergedDoc.Creators
            all == AllCreators
        IN /\ {creators[i] : i \in 1..Len(creators)} = {all[i] : i \in 1..Len(all)}
           /\ \A i, j \in 1..Len(creators) : creators[i] = creators[j] => i = j
           /\ \A i, j \in 1..Len(creators) :
                 i < j => First(all, creators[i]) < First(all, creators[j])
           /\ (\A i \in 1..(Len(all) - 1) : all[i] # mergerTool)
                 => creators[Len(creators)] = mergerTool

\* Both inputs name the same creator twice and one names the merge tool.
C13_Witness ==
    /\ pc = "merged"
    /\ ubuntuDoc.Creators = <<"Tool: sbomnix", mergerTool>>
    /\ nixDoc.Creators = <<"Tool: sbomnix", "Tool: sbomnix">>
    /\ mergedDoc.Creators = <<"Tool: sbomnix", mergerTool>>

\* The identifier a relationship's end has after the merge.
Retagged(id, tag) ==
    IF id \in {DocumentID, SystemID, UbuntuSystemID} THEN {id, SystemID}
    ELSE {id, Tagged(id, tag)}

Preserved(r, tag) ==
    \E i \in 1..Len(mergedDoc.Relationships) :
       /\ mergedDoc.Relationships[i].RelationshipType = r.RelationshipType
       /\ mergedDoc.Relationships[i].SPDXElementID \in Retagged(r.SPDXElementID, tag)
       /\ mergedDoc.Relationships[i].RelatedSPDXElement
             \in Retagged(r.RelatedSPDXElement, tag)

\* C14: every non-root package of either input is in the merged document
\* with all fields other than its identifier unchanged, and every
\* relationship of an input is in the merged document with its identifiers
\* re-tagged.
C14_MetadataPreserved ==
    pc = "merged" =>
        /\ \A i \in 1..Len(KeptUbuntu) :
              [mergedDoc.Packages[1 + i] EXCEPT !.SPDXID = KeptUbuntu[i].SPDXID]
                 = KeptUbuntu[i]
        /\ \A i \in 1..Len(KeptNix) :
              [mergedDoc.Packages[1 + Len(KeptUbuntu) + i]
                  EXCEPT !.SPDXID = KeptNix[i].SPDXID] = KeptNix[i]
        /\ \A i \in 1..Len(ubuntuDoc.Relationships) :
              Preserved(ubuntuDoc.Relationships[i], <<"U","b","u","n","t","u">>)
        /\ \A i \in 1..Len(nixDoc.Relationships) :
              Preserved(nixDoc.Relationships[i], <<"N","i","x">>)

\* The rule of the claim: a prior root by identifier, or by the name
\* heuristic.
PriorRoot(pkg) ==
    \/ pkg.SPDXID \in {UbuntuSystemID, SystemID}
    \/ /\ Contains(ToLower(pkg.Name), <<"s","y","s","t","e","m">>)
       /\ (HasSuffix(pkg.SPDXID, <<"-","S","y","s","t","e","m">>) \/ pkg.SPDXID = DocumentID)

NotPriorRoot(pkgs) == SelectSeq(pkgs, LAMBDA p : ~PriorRoot(p))

\* The names of the packages of the merged document after the root.
NamesFrom(d, from, to) == [i \in 1..(to - from + 1) |-> d.Packages[from + i - 1].Name]

\* C15: a package of docA, and likewise one of docB, is dropped exactly
\* when it is a prior root by identifier or by the name heuristic; every
\* other package is kept.
C15_SameRootRule ==
    pc = "merged" =>
        LET a == NotPriorRoot(ubuntuDoc.Packages)
            b == NotPriorRoot(nixDoc.Packages)
        IN /\ Len(mergedDoc.Packages) = 1 + Len(a) + Len(b)
           /\ NamesFrom(mergedDoc, 2, 1 + Len(a)) = [i \in 1..Len(a) |-> a[i].Name]
           /\ NamesFrom(mergedDoc, 2 + Len(a), 1 + Len(a) + Len(b))
                 = [i \in 1..Len(b) |-> b[i].Name]

\* A package without its identifier.
Content(pkg) ==
    [Name |-> pkg.Name, PackageVersion |-> pkg.PackageVersion,
     ExternalRefs |-> pkg.ExternalRefs]

\* How many non-root packages of a merged document have a content.
Occurrences(d, content) ==
    Cardinality({i \in 2..Len(d.Packages) : Content(d.Packages[i]) = content})

\* C20: merge(A, B) and merge(B, A) hold the same collection of non-root
\* packages, each with the same content apart from its identifier.
C20_OrderIndependent ==
    pc = "merged" =>
        LET swapped == merged(nixDoc, ubuntuDoc).doc
        IN /\ Len(swapped.Packages) = Len(mergedDoc.Packages)
           /\ \A i \in 2..Len(mergedDoc.Packages) :
                 Occurrences(swapped, Content(mergedDoc.Packages[i]))
                    = Occurrences(mergedDoc, Content(mergedDoc.Packages[i]))

---------------------------------------------------------------------------
(* generateUUID and the document namespaces of Generate and Merge.         *)

HexDigits == <<"0","1","2","3","4","5","6","7","8","9","a","b","c","d","e","f">>

\* fmt's %x for one byte of a byte slice: two lower-case digits.
HexByte(b) == <<HexDigits[(b \div 16) + 1], HexDigits[(b % 16) + 1]>>

\* fmt's %x for a byte slice.
Hex(bytes) == Concat([i \in 1..Len(bytes) |-> HexByte(bytes[i])])

UUIDBytes == 16

ByteRange == 256

\* generateUUID for the values time.Now().UnixNano() takes at the sixteen
\* reads of the loop: byte(now & 0xff) each, printed in five groups.
generateUUID(readings) ==
    LET b == [i \in 1..UUIDBytes |-> readings[i] % ByteRange]
    IN Hex(SubSeq(b, 1, 4)) \o <<"-">> \o Hex(SubSeq(b, 5, 6)) \o <<"-">>
         \o Hex(SubSeq(b, 7, 8)) \o <<"-">> \o Hex(SubSeq(b, 9, 10)) \o <<"-">>
         \o Hex(SubSeq(b, 11, UUIDBytes))

\* Most nanoseconds the clock advances from one read of the loop to the
\* next; 0 is a clock that does not advance during the loop.
MaxStep == 1

\* Most documents generated in a run of the model.
MaxDocuments == 2

\* Nanoseconds between the last read of one generation and the first read
\* of the next, in the same or in another process: none, one, or one full
\* turn of the low byte.
Gaps == {0, 1, ByteRange}

\* The clock values the loop can read when it starts at time start.
Readings(start, step) == [i \in 1..UUIDBytes |-> start + (i - 1) * step]

InitUUID ==
    /\ pc = "uuid"
    /\ clock \in {0, 250}
    /\ namespaces = <<>>
    /\ LicenseIdle /\ CPEIdle /\ MergeIdle /\ GenerateIdle /\ CommandIdle

\* The identifiers generateUUID can return at the current time, each with
\* the time of its last read of the clock.
Generated ==
    {[uuid |-> generateUUID(Readings(clock + gap, step)),
      now |-> Readings(clock + gap, step)[UUIDBytes]] :
        gap \in Gaps, step \in 0..MaxStep}

\* Generate: DocumentNamespace of the Ubuntu document.
GenerateNamespace ==
    /\ pc = "uuid"
    /\ Len(namespaces) < MaxDocuments
    /\ \E id \in Generated :
          /\ namespaces' = Append(namespaces, <<"h","t","t","p","s",":","/","/","s","b","o","m",".","u","b","u","n","t","u",".","s","y","s","t","e","m","/">> \o id.uuid)
          /\ clock' = id.now
    /\ UNCHANGED <<pc, licenseVars, cpeVars, mergeVars, generateVars, commandVars>>

\* Merge: DocumentNamespace of the merged document.
MergeNamespace ==
    /\ pc = "uuid"
    /\ Len(namespaces) < MaxDocuments
    /\ \E id \in Generated :
          /\ namespaces' = Append(namespaces, <<"h","t","t","p","s",":","/","/","s","b","o","m",".","u","b","u","n","t","u","-","n","i","x",".","s","y","s","t","e","m","/">> \o id.uuid)
          /\ clock' = id.now
    /\ UNCHANGED <<pc, licenseVars, cpeVars, mergeVars, generateVars, commandVars>>

NextUUID == GenerateNamespace \/ MergeNamespace

SpecUUID == InitUUID /\ [][NextUUID]_vars

\* C18: any two document generations embed different identifiers, so no
\* two generated documents carry the same documentNamespace.
C18_NamespacesUnique ==
    pc = "uuid" =>
        \A i, j \in 1..Len(namespaces) : namespaces[i] = namespaces[j] => i = j

---------------------------------------------------------------------------
(* Claims about identifiers, references and relationships of the documents *)
(* the generator and the mergers produce.                                  *)

\* The repairer on one locator of a cpe23Type reference.
Repaired(locator) ==
    IF cpePattern(locator) THEN locator ELSE fixCPEFormat(locator)

\* The packages of the merged document taken from docA and from docB.
FromUbuntu == [i \in 1..Len(KeptUbuntu) |-> mergedDoc.Packages[1 + i]]

FromNix ==
    [i \in 1..Len(KeptNix) |-> mergedDoc.Packages[1 + Len(KeptUbuntu) + i]]

\* C21: in every merge, the external references of a package taken from
\* docA are copied unchanged, and those of a package taken from docB are
\* the same references with the locator of every cpe23Type reference
\* replaced by its repair.
C21_DocBReferencesRepaired ==
    pc = "merged" =>
        /\ \A i \in 1..Len(KeptUbuntu) :
              FromUbuntu[i].ExternalRefs = KeptUbuntu[i].ExternalRefs
        /\ \A i \in 1..Len(KeptNix) :
              LET before == KeptNix[i].ExternalRefs
                  after == FromNix[i].ExternalRefs
              IN /\ Len(after) = Len(before)
                 /\ \A k \in 1..Len(before) :
                       after[k] =
                          IF before[k].Type = "cpe23Type"
                          THEN [before[k] EXCEPT !.Locator = Repaired(@)]
                          ELSE before[k]

\* The identifier the specification gives the k-th package of a document.
OrdinalID(k, name) ==
    <<"S","P","D","X","R","e","f","-","U","b","u","n","t","u","-","P","a","c","k","a","g","e","-">> \o Itoa(k) \o <<"-">>
        \o [i \in 1..Len(name) |->
               IF name[i] \in Letters \cup Digits \cup {"-", "."}
               THEN name[i] ELSE "-"]

\* C24: in every assembled document the identifier of the k-th input
\* package is "SPDXRef-Ubuntu-Package-<k>-<name>" with every character of
\* the name outside [A-Za-z0-9-.] replaced by "-", and all identifiers of
\* the document, the root's included, are pairwise distinct.
C24_OrdinalIdentifiers ==
    pc = "exited" /\ err = "nil" =>
        /\ \A k \in 1..Len(Accepted) :
              sbom.Packages[k + 1].SPDXID = OrdinalID(k, Split(Accepted[k], "\t")[1])
        /\ DistinctIDs(sbom.Packages)

\* The same package is listed twice and its name holds replaced characters.
C24_Witness ==
    /\ pc = "exited" /\ err = "nil"
    /\ Len(sbom.Packages) = 3
    /\ sbom.Packages[2].Name = <<"g","+","+">>
    /\ sbom.Packages[3].Name = <<"g","+","+">>
    /\ sbom.Packages[2].SPDXID = <<"S","P","D","X","R","e","f","-","U","b","u","n","t","u","-","P","a","c","k","a","g","e","-","1","-","g","-","-">>
    /\ sbom.Packages[3].SPDXID = <<"S","P","D","X","R","e","f","-","U","b","u","n","t","u","-","P","a","c","k","a","g","e","-","2","-","g","-","-">>

\* The relationships of a document form a tree: one DESCRIBES from the
\* document to the root, one package with the root identifier, every other
\* relationship a CONTAINS from the root to a package of the document, and
\* every non-root package the target of exactly one relationship.
RelationshipTree(d, root) ==
    LET rels == d.Relationships
        describes == {i \in 1..Len(rels) : rels[i].RelationshipType = "DESCRIBES"}
        roots == {i \in 1..Len(d.Packages) : d.Packages[i].SPDXID = root}
    IN /\ Cardinality(describes) = 1
       /\ \A i \in describes :
             rels[i] = Relationship(DocumentID, root, "DESCRIBES")
       /\ Cardinality(roots) = 1
       /\ \A i \in (1..Len(rels)) \ describes :
             /\ rels[i].RelationshipType = "CONTAINS"
             /\ rels[i].SPDXElementID = root
             /\ \E j \in 1..Len(d.Packages) :
                   d.Packages[j].SPDXID = rels[i].RelatedSPDXElement
       /\ \A j \in (1..Len(d.Packages)) \ roots :
             Cardinality({i \in 1..Len(rels) :
                             rels[i].RelatedSPDXElement = d.Packages[j].SPDXID}) = 1

\* C25: the relationships of every produced document form a tree rooted at
\* the document and then at the single root package.
C25_RelationshipTree ==
    pc = "merged" => RelationshipTree(mergedDoc, SystemID)

\* C30: in every merged document no package taken from docA has the
\* identifier of a package taken from docB, and no package taken from an
\* input has the identifier of the synthetic root.
C30_NoCrossCollision ==
    pc = "merged" =>
        /\ \A i \in 1..Len(FromUbuntu) : \A j \in 1..Len(FromNix) :
              FromUbuntu[i].SPDXID # FromNix[j].SPDXID
        /\ \A i \in 2..Len(mergedDoc.Packages) :
              mergedDoc.Packages[i].SPDXID # SystemID

\* Both inputs hold a package with the identifier "SPDXRef-a", and docB
\* holds a package with the identifier of the synthetic root that is kept.
C30_Witness ==
    /\ pc = "merged"
    /\ \E i \in 1..Len(KeptUbuntu) : KeptUbuntu[i].SPDXID = <<"S","P","D","X","R","e","f","-","a">>
    /\ \E j \in 1..Len(KeptNix) : KeptNix[j].SPDXID = <<"S","P","D","X","R","e","f","-","a">>
    /\ \E j \in 1..Len(KeptNix) : KeptNix[j].SPDXID = SystemID
    /\ Len(mergedDoc.Packages) = 4

---------------------------------------------------------------------------
(* combinedCommand: the temporary directory, the two intermediate files,   *)
(* the merge and the output file.                                          *)

\* json.NewEncoder(file).Encode(doc) for the members loadDocument reads.
encodeExternalRef(r) ==
    JObject([referenceCategory |-> JString(r.Category),
             referenceType |-> JString(r.Type),
             referenceLocator |-> JString(r.Locator)])

encodePackage(p) ==
    JObject([SPDXID |-> JString(p.SPDXID),
             name |-> JString(p.Name),
             versionInfo |-> JString(p.PackageVersion),
             externalRefs |->
                 JArray([i \in 1..Len(p.ExternalRefs) |->
                            encodeExternalRef(p.ExternalRefs[i])])])

encodeRelationship(r) ==
    JObject([spdxElementId |-> JString(r.SPDXElementID),
             relatedSpdxElement |-> JString(r.RelatedSPDXElement),
             relationshipType |-> JString(r.RelationshipType)])

encodeDocument(d) ==
    JObject([SPDXID |-> JString(d.SPDXID),
             creationInfo |->
                 JObject([creators |->
                     JArray([i \in 1..Len(d.Creators) |-> JString(d.Creators[i])])]),
             packages |->
                 JArray([i \in 1..Len(d.Packages) |-> encodePackage(d.Packages[i])]),
             relationships |->
                 JArray([i \in 1..Len(d.Relationships) |->
                            encodeRelationship(d.Relationships[i])])])

\* The machines the combined command runs on: dpkg-query prints one line
\* fewer than the generator's specification allows.
CombinedSystems ==
    {s \in Systems : Len(s.query.lines) < MaxLines}

\* The states of the temporary directory.
TmpDirStates == {"none", "created", "removed"}

InitCombined ==
    /\ pc = "combined"
    /\ flags \in Flags
    /\ system \in CombinedSystems
    /\ tmpDir = "none"
    /\ files = [ubuntu |-> Unreadable, nix |-> Unreadable]
    /\ sbom = Idle /\ stdout = <<>>
    /\ outputFile = Idle /\ exitCode = Idle /\ err = Idle
    /\ LicenseIdle /\ CPEIdle /\ MergeIdle /\ UUIDIdle

\* os.MkdirTemp, and log.Fatalf when it fails.
CombinedMkdirTemp ==
    /\ pc = "combined"
    /\ \E made \in BOOLEAN :
          IF made
          THEN /\ tmpDir' = "created"
               /\ pc' = "tmp"
               /\ UNCHANGED <<err, exitCode>>
          ELSE /\ tmpDir' = tmpDir
               /\ err' = "Failed to create temp directory"
               /\ exitCode' = 1
               /\ pc' = "exited"
    /\ UNCHANGED <<flags, system, sbom, stdout, files, outputFile,
                 licenseVars, cpeVars, mergeVars, uuidVars>>

\* Generate and Save of the Ubuntu document into the temporary directory;
\* log.Fatalf ends the process where it is called.
CombinedUbuntu ==
    /\ pc = "tmp"
    /\ \E outcome \in Generate(NewGenerator(flags.includeFiles, showProgress(flags)),
                               system) :
       \E created \in BOOLEAN :
          /\ sbom' = outcome.doc
          /\ stdout' = <<"Generating Ubuntu SBOM...">> \o outcome.stdout
          /\ IF outcome.err # "nil"
             THEN /\ err' = "Failed to generate Ubuntu SBOM"
                  /\ exitCode' = 1
                  /\ pc' = "exited"
                  /\ files' = files
             ELSE IF ~created
             THEN /\ err' = "Failed to save Ubuntu SBOM"
                  /\ exitCode' = 1
                  /\ pc' = "exited"
                  /\ files' = files
             ELSE /\ files' = [files EXCEPT
                                  !.ubuntu = Readable(Text(encodeDocument(outcome.doc)))]
                  /\ pc' = "ubuntu"
                  /\ UNCHANGED <<err, exitCode>>
    /\ UNCHANGED <<flags, system, tmpDir, outputFile,
                 licenseVars, cpeVars, mergeVars, uuidVars>>

\* What the Nix step can meet: the derivation path is missing, sbomnix
\* fails, or sbomnix ends well and leaves a file of its own making.
NixOutcomes ==
    {[err |-> "derivation path does not exist", file |-> Unreadable],
     [err |-> "sbomnix failed", file |-> Unreadable]}
        \cup {[err |-> "nil", file |-> f] : f \in FilePool}

\* nixWrapper.Generate into the temporary directory.
CombinedNix ==
    /\ pc = "ubuntu"
    /\ \E outcome \in NixOutcomes :
          /\ files' = [files EXCEPT !.nix = outcome.file]
          /\ IF outcome.err # "nil"
             THEN /\ err' = "Failed to generate Nix SBOM"
                  /\ exitCode' = 1
                  /\ pc' = "exited"
             ELSE /\ pc' = "nix"
                  /\ UNCHANGED <<err, exitCode>>
    /\ stdout' = Append(stdout, "Generating Nix SBOM...")
    /\ UNCHANGED <<flags, system, sbom, tmpDir, outputFile,
                 licenseVars, cpeVars, mergeVars, uuidVars>>

\* Merge of the two intermediate files, Save of the merged document and
\* the return of combinedCommand, which runs the deferred os.RemoveAll.
CombinedMerge ==
    /\ pc = "nix"
    /\ LET ubuntu == loadDocument(files.ubuntu)
           nix == loadDocument(files.nix)
       IN IF ~ubuntu.ok \/ ~nix.ok
          THEN /\ err' = "Failed to merge SBOMs"
               /\ exitCode' = 1
               /\ stdout' = Append(stdout, "Merging SBOMs...")
               /\ UNCHANGED <<mergeVars, outputFile, files, tmpDir>>
          ELSE LET result == merged(ubuntu.value, nix.value)
               IN /\ ubuntuDoc' = ubuntu.value
                  /\ nixDoc' = nix.value
                  /\ mergedDoc' = result.doc
                  /\ ubuntuCount' = result.ubuntuCount
                  /\ nixCount' = result.nixCount
                  /\ merger' = "Merger"
                  /\ \E created \in BOOLEAN :
                        IF created
                        THEN /\ err' = "nil"
                             /\ exitCode' = 0
                             /\ outputFile' = result.doc
                             /\ stdout' = stdout \o <<"Merging SBOMs...",
                                            "Merged SBOM generated successfully">>
                             /\ tmpDir' = "removed"
                             /\ files' = [ubuntu |-> Unreadable, nix |-> Unreadable]
                        ELSE /\ err' = "Failed to save merged SBOM"
                             /\ exitCode' = 1
                             /\ stdout' = Append(stdout, "Merging SBOMs...")
                             /\ UNCHANGED <<outputFile, files, tmpDir>>
    /\ pc' = "exited"
    /\ UNCHANGED <<flags, system, sbom, licenseVars, cpeVars, uuidVars>>

NextCombined ==
    CombinedMkdirTemp \/ CombinedUbuntu \/ CombinedNix \/ CombinedMerge

SpecCombined == InitCombined /\ [][NextCombined]_vars

\* C29: whenever the combined command has ended after creating its
\* temporary directory, with success or with a fatal error, the directory
\* and the intermediate files in it have been removed.
C29_TempDirRemoved ==
    pc = "exited" /\ tmpDir \in TmpDirStates \ {"none"} =>
        /\ tmpDir = "removed"
        /\ files.ubuntu = Unreadable
        /\ files.nix = Unreadable

---------------------------------------------------------------------------
(* The tools together.                                                     *)

Init ==
    InitLicense \/ InitCPE \/ InitMerge \/ InitGenerate \/ InitMergeCommand
    \/ InitMergeDocs \/ InitUUID \/ InitCombined

Next ==
    Normalize \/ NormalizeAgain \/ NormalizeRepeat \/ Clean \/ CleanAgain
    \/ Merge \/ MergeStandalone \/ UbuntuCommand \/ MergeCommand
    \/ GenerateNamespace \/ MergeNamespace
    \/ CombinedMkdirTemp \/ CombinedUbuntu \/ CombinedNix \/ CombinedMerge

Spec == Init /\ [][Next]_vars

===========================================================================
